---------------------------- MODULE Spec2Model ----------------------------
(***************************************************************************)
(* The dictionary engine of duodushu-desktop: DictManager                  *)
(* (backend/app/services/dict_manager.py) with the container reader        *)
(* MDXParser (backend/app/services/mdx_parser.py).                         *)
(*                                                                         *)
(* Strings are sequences of one-character strings, so that lower(),        *)
(* strip() and startswith() are computed and not assumed.  A file name is  *)
(* the sequence of the characters of its stem followed by one token for    *)
(* its suffix (".mdx", ".mdd", ".css"); "_" is a character like any other. *)
(***************************************************************************)
EXTENDS Integers, Sequences, FiniteSets, TLC

(***************************************************************************)
(* Bounds of the model.                                                    *)
(***************************************************************************)
\* import, remove, set_priority and toggle calls made in one run
MaxCalls == 3
\* operations started by the threads of the interleaved specification
MaxOps == 2

(***************************************************************************)
(* Strings.                                                                *)
(***************************************************************************)
\* str.lower() on one character
LowerChar(c) ==
    CASE c = "A" -> "a"
      [] c = "B" -> "b"
      [] c = "C" -> "c"
      [] c = "D" -> "d"
      [] c = "E" -> "e"
      [] c = "I" -> "i"
      [] c = "O" -> "o"
      [] c = "T" -> "t"
      [] c = "X" -> "x"
      [] OTHER -> c

\* str.lower()
Lower(s) == [i \in DOMAIN s |-> LowerChar(s[i])]

IsSpace(c) == c = " "

\* str.lstrip() / str.rstrip() / str.strip()
RECURSIVE LStrip(_)
LStrip(s) == IF s # <<>> /\ IsSpace(Head(s)) THEN LStrip(Tail(s)) ELSE s

RECURSIVE RStrip(_)
RStrip(s) ==
    IF s # <<>> /\ IsSpace(s[Len(s)]) THEN RStrip(SubSeq(s, 1, Len(s) - 1)) ELSE s

Strip(s) == RStrip(LStrip(s))

\* str.startswith(prefix)
StartsWith(s, prefix) ==
    /\ Len(prefix) <= Len(s)
    /\ SubSeq(s, 1, Len(prefix)) = prefix

\* Path(filename).stem: the file name without its suffix token
IsSuffix(c) == c \in {".mdx", ".mdd", ".css", ".zip"}
Stem(fname) ==
    IF fname # <<>> /\ IsSuffix(fname[Len(fname)])
    THEN SubSeq(fname, 1, Len(fname) - 1) ELSE fname
Suffix(fname) ==
    IF fname # <<>> /\ IsSuffix(fname[Len(fname)]) THEN fname[Len(fname)] ELSE ""

\* dict_info["filename"].replace(".mdx", ".mdd")
ReplaceMdxMdd(fname) == [i \in DOMAIN fname |-> IF fname[i] = ".mdx" THEN ".mdd" ELSE fname[i]]

(***************************************************************************)
(* Names, words and containers the model draws its inputs from.            *)
(***************************************************************************)
ECDICT == <<"E", "C", "D", "I", "C", "T">>
En == <<"e", "n">>
Eng == <<"E", "n", "g">>
DictNames == {En, Eng}
\* the optional source argument of lookup_word: None
NoSource == <<>>

\* entry content: none/empty, a definition, or a redirect "@@@LINK=<raw>"
NoContent == [kind |-> "none"]
Html(n) == [kind |-> "html", body |-> n]
Link(raw) == [kind |-> "link", raw |-> raw]

Cat == <<"c", "a", "t">>
CapCat == <<"C", "a", "t">>
Cats == <<"c", "a", "t", "s">>
Ox == <<"o", "x">>
Oxen == <<"o", "x", "e", "n">>
WA == <<"a">>
WB == <<"b">>

Entry(w, c) == [word |-> w, content |-> c]

\* a dictionary with an entry stored capitalised, a redirect to it (the target
\* is written with a blank before it), an entry whose content is empty, a
\* redirect to that entry, and two redirects that form a cycle
MdxGeneral ==
    << Entry(CapCat, Html(1)), Entry(Cats, Link(<<" ">> \o Cat)), Entry(Ox, NoContent),
       Entry(Oxen, Link(Ox)), Entry(WA, Link(WB)), Entry(WB, Link(WA)) >>
\* a second dictionary: "cats" has a definition of its own
MdxOther == << Entry(Cats, Html(3)), Entry(Cat, Html(4)), Entry(Ox, Html(2)) >>
\* a resource archive (path -> bytes), read through the same interface
MddRes == << Entry(<<"\\", "i">>, Html(9)) >>

NoFile == <<>>

\* An upload: the file handed to import_dict.  path is its file name, mdx its
\* container (for a bundle: the largest .mdx member, named primary), sibling the
\* container of the file path.with_suffix(".mdd") next to the upload (or NoFile),
\* members the other files in the primary's directory of a bundle.
Member(fname, data) == [fname |-> fname, data |-> data]
RawUpload(fname, mdx, sibling) ==
    [path |-> fname, mdx |-> mdx, primary |-> fname, sibling |-> sibling, members |-> {}]
ZipUpload(fname, primary, mdx, members) ==
    [path |-> fname, mdx |-> mdx, primary |-> primary, sibling |-> NoFile, members |-> members]

General == RawUpload(<<"u", ".mdx">>, MdxGeneral, MddRes)
Bundle ==
    ZipUpload(<<"z", ".zip">>, <<"f", ".mdx">>, MdxOther,
              { Member(<<"f", ".mdd">>, MddRes), Member(<<"g", ".css">>, <<>>) })
Uploads == {General, Bundle}

\* the paths resources are asked for: as a URL gives it, as the archive keys
\* it, without a leading separator, one the archive does not have, and one in
\* capitals
ResourcePaths == { <<"/", "i">>, <<"\\", "i">>, <<"i">>, <<"/", "x">>, <<"/", "I">> }


(***************************************************************************)
(* The registry (dicts_config.json) and the in-memory copy self.config.    *)
(***************************************************************************)

DefaultConfig == [dicts |-> [n \in {} |-> 0], priority |-> <<ECDICT>>, auto_index |-> TRUE]

\* the registry file: parseable JSON holding cfg, or empty / cut short / overlaid
\* bytes that json.load rejects
FileOk(cfg) == [state |-> "ok", cfg |-> cfg]
FileEmpty == [state |-> "empty", cfg |-> DefaultConfig]
FileGarbage == [state |-> "garbage", cfg |-> DefaultConfig]

DictRecord(name, wc) ==
    [name |-> name, filename |-> name \o <<".mdx">>, word_count |-> wc, is_active |-> TRUE]

PutKey(f, k, v) == [x \in DOMAIN f \cup {k} |-> IF x = k THEN v ELSE f[x]]
DelKeys(f, ks) == [x \in DOMAIN f \ ks |-> f[x]]

\* list.append(x) in place of list.insert(0, x)
PrependAtEnd(x, s) == s \o <<x>>

\* list.insert(0, x)
Prepend(x, s) == <<x>> \o s
\* while x in list: list.remove(x)
RECURSIVE RemoveAll(_, _)
RemoveAll(s, x) ==
    IF s = <<>> THEN <<>>
    ELSE IF Head(s) = x THEN RemoveAll(Tail(s), x)
    ELSE <<Head(s)>> \o RemoveAll(Tail(s), x)

SeqToSet(s) == {s[i] : i \in DOMAIN s}

VARIABLES
    file,        \* content of dicts_config.json
    config,      \* self.config of the engine instance
    storage,     \* imported_dir: file name -> content
    dictRows,    \* table dicts of mdx_index.db
    entries,     \* table entries of mdx_index.db, in rowid order
    nextDictId,  \* next AUTOINCREMENT id of table dicts
    lastOp,      \* the last completed public call and what it returned
    calls,       \* import, remove, set_priority and toggle calls made so far
    lock,        \* holder of self._lock
    threads,     \* the calls in progress, one per thread
    opsStarted   \* calls started by the threads

vars == <<file, config, storage, dictRows, entries, nextDictId, lastOp, calls, lock, threads, opsStarted>>

\* _load_config: what it returns ...
LoadConfig(f) == IF f.state = "ok" THEN f.cfg ELSE DefaultConfig
\* _load_config that returns the default without saving it
FileAfterLoadUnsaved(f) == f
\* ... and what it leaves in the file (the default is saved when the file is
\* missing or does not parse)
FileAfterLoad(f) == IF f.state = "ok" THEN f ELSE FileOk(DefaultConfig)

\* _save_config run to completion with no other writer
SaveConfig(cfg) == FileOk(cfg)

(***************************************************************************)
(* The index database.                                                     *)
(***************************************************************************)
DescriptorsOf(rows, name) == {r \in rows : r.name = name}

\* _get_or_create_dict_id: INSERT OR IGNORE on the UNIQUE name, then SELECT id
GetOrCreateDictId(rows, nid, name) ==
    IF DescriptorsOf(rows, name) # {}
    THEN [rows |-> rows, nid |-> nid, id |-> (CHOOSE r \in DescriptorsOf(rows, name) : TRUE).id]
    ELSE [rows |-> rows \cup {[id |-> nid, name |-> name,
                               filename |-> name \o <<".mdx">>, word_count |-> -1]},
          nid |-> nid + 1, id |-> nid]

\* MDXParser.parse: the entries of the container; the key is decoded, with
\* errors="ignore" when it is not valid in the encoding of the container, which
\* drops the bytes that cannot be decoded (written "\\xff"); content is decoded
\* for a .mdx and left None for a .mdd
Parse(container, isMdd) ==
    [i \in DOMAIN container |->
        [word |-> SelectSeq(container[i].word, LAMBDA c : c # "\\xff"),
         content |-> IF isMdd THEN NoContent ELSE container[i].content]]

BatchSize == 1000

\* the loop of _create_index: rows go to the batch, a full batch is written
\* and committed, every entry is counted
RECURSIVE IndexLoop(_, _, _, _)
IndexLoop(parsed, i, dictId, st) ==
    IF i > Len(parsed) THEN st
    ELSE LET e == parsed[i]
             row == [dict_id |-> dictId, word |-> e.word,
                     word_lower |-> Lower(e.word), content |-> e.content]
             batch == Append(st.batch, row)
             full == Len(batch) >= BatchSize
         IN IndexLoop(parsed, i + 1, dictId,
                      [written |-> IF full THEN st.written \o batch ELSE st.written,
                       batch |-> IF full THEN <<>> ELSE batch,
                       count |-> st.count + 1])

SetWordCount(rows, name, wc) ==
    {IF r.name = name THEN [r EXCEPT !.word_count = wc] ELSE r : r \in rows}

\* _create_index on the container stored under a file of imported_dir
CreateIndex(container, isMdd, name, rows, ents, nid) ==
    LET g == GetOrCreateDictId(rows, nid, name)
        st == IndexLoop(Parse(container, isMdd), 1, g.id,
                        [written |-> <<>>, batch |-> <<>>, count |-> 0])
    IN [rows |-> SetWordCount(g.rows, name, st.count),
        entries |-> ents \o st.written \o st.batch,
        nid |-> g.nid,
        word_count |-> st.count]

\* The same loop taken one executemany at a time, for containers of more than
\* a batch, with the attempts numbered in fails raising "database is locked"
\* (nothing of the batch is written).  Entries i.. are still to be read and the
\* batch holds the rows of entries start..i-1.  An attempt inside the loop is
\* made at the entry that brings the batch to batch_size rows or, after a
\* failure, at every entry; its exception is caught by the except of the loop
\* body, which skips word_count += 1 and leaves the batch as it is.  An
\* exception of the attempt after the loop is not caught.
RowsOf(parsed, dictId, a, b) ==
    [k \in 1..(b - a + 1) |->
        [dict_id |-> dictId, word |-> parsed[a + k - 1].word,
         word_lower |-> Lower(parsed[a + k - 1].word), content |-> parsed[a + k - 1].content]]

\* a failed executemany that takes the committed batches with it
CommittedRolledBack(written) == <<>>

\* conn.commit() after each batch: the rows written before an exception stay
Committed(written) == written

RECURSIVE BatchLoop(_, _, _, _, _, _)
BatchLoop(parsed, i, start, dictId, st, fails) ==
    LET j == IF start + BatchSize - 1 > i THEN start + BatchSize - 1 ELSE i
        failing == (st.attempts + 1) \in fails
    IN IF j > Len(parsed)
       THEN LET count == st.count + (Len(parsed) - i + 1)
            IN IF start > Len(parsed)
               THEN [written |-> st.written, count |-> count, raised |-> FALSE,
                     outcomes |-> st.outcomes, attempts |-> st.attempts]
               ELSE IF failing
               THEN [written |-> Committed(st.written), count |-> count, raised |-> TRUE,
                     outcomes |-> Append(st.outcomes, FALSE), attempts |-> st.attempts + 1]
               ELSE [written |-> st.written \o RowsOf(parsed, dictId, start, Len(parsed)),
                     count |-> count, raised |-> FALSE,
                     outcomes |-> Append(st.outcomes, TRUE), attempts |-> st.attempts + 1]
       ELSE IF failing
       THEN BatchLoop(parsed, j + 1, start, dictId,
                      [written |-> st.written, count |-> st.count + (j - i),
                       outcomes |-> Append(st.outcomes, FALSE),
                       attempts |-> st.attempts + 1], fails)
       ELSE BatchLoop(parsed, j + 1, j + 1, dictId,
                      [written |-> st.written \o RowsOf(parsed, dictId, start, j),
                       count |-> st.count + (j - i) + 1,
                       outcomes |-> Append(st.outcomes, TRUE),
                       attempts |-> st.attempts + 1], fails)

\* _create_index of a .mdx with failing writes: the UPDATE of word_count is
\* reached only when the last executemany did not raise
CreateIndexFailing(container, name, rows, ents, nid, fails) ==
    LET g == GetOrCreateDictId(rows, nid, name)
        st == BatchLoop(Parse(container, FALSE), 1, 1, g.id,
                        [written |-> <<>>, count |-> 0, outcomes |-> <<>>, attempts |-> 0],
                        fails)
    IN [rows |-> IF st.raised THEN g.rows ELSE SetWordCount(g.rows, name, st.count),
        entries |-> ents \o st.written,
        nid |-> g.nid,
        word_count |-> st.count,
        raised |-> st.raised,
        outcomes |-> st.outcomes]


(***************************************************************************)
(* lookup_word.                                                            *)
(***************************************************************************)
NotFound == [found |-> FALSE]
Found(w, src, c) == [found |-> TRUE, word |-> w, source |-> src, content |-> c]

\* a depth check that lets two more redirects through
DepthExceededLate(d) == d > 5

\* a depth check that stops one redirect early
DepthExceededEarly(d) == d >= 3

\* if _depth > 3: return None
DepthExceeded(d) == d > 3

\* MDX.get(key): the contents stored under exactly this key, in file order
RECURSIVE MdxGet(_, _)
MdxGet(container, key) ==
    IF container = <<>> THEN <<>>
    ELSE (IF Head(container).word = key THEN <<Head(container).content>> ELSE <<>>)
         \o MdxGet(Tail(container), key)

\* MDXParser.get_content_by_word: the key as given, then lowercased
GetContentByWord(container, word) ==
    LET r1 == MdxGet(container, word)
        r2 == IF r1 = <<>> THEN MdxGet(container, Lower(word)) ELSE r1
    IN IF r2 = <<>> THEN NoContent ELSE r2[1]

\* a pattern that matches nothing: no redirect is followed
LinkMatchNever(content) == FALSE

\* re.search(r"@@@LINK=([^\n\r]+)", content)
LinkMatch(content) == content.kind = "link" /\ content.raw # <<>>

\* the priority list walked from its end
RECURSIVE Reverse(_)
Reverse(s) == IF s = <<>> THEN <<>> ELSE Reverse(Tail(s)) \o <<Head(s)>>
TargetDictsReversed(cfg, source) ==
    IF source # NoSource /\ source # ECDICT THEN <<source>> ELSE Reverse(cfg.priority)

\* the source argument ignored
TargetDictsAll(cfg, source) == cfg.priority

\* a source that is not registered read as no source
TargetDictsFallBack(cfg, source) ==
    IF source \in DOMAIN cfg.dicts THEN <<source>> ELSE cfg.priority

\* the list lookup_word walks
TargetDicts(cfg, source) ==
    IF source # NoSource /\ source # ECDICT THEN <<source>> ELSE cfg.priority

\* SELECT word, content FROM entries WHERE dict_id = ? AND word_lower = ?
\* LIMIT 1 names no order: any matching row may be the one returned
MatchingRows(ents, dictId, wordLower) ==
    {i \in DOMAIN ents : ents[i].dict_id = dictId /\ ents[i].word_lower = wordLower}

\* content of a row, with the fallback to the container file when the index
\* holds none
RowContent(cfg, store, name, row, word) ==
    IF row.content # NoContent THEN row.content
    ELSE LET fname == cfg.dicts[name].filename
         IN IF fname \in DOMAIN store THEN GetContentByWord(store[fname], word)
            ELSE NoContent

\* if dict_name not in self.config["dicts"]: continue
IsRegistered(cfg, name) == name \in DOMAIN cfg.dicts

\* the enabled flag not read
IsActiveAlways(cfg, name) == TRUE

\* is_active = dict_info.get("is_active", True)
IsActive(cfg, name) == cfg.dicts[name].is_active

\* One walk of lookup_word over its target list from position i, with the
\* configuration cfg it reads: it returns a result, finds nothing, or meets a
\* redirect and calls itself for the stripped target.
Walked(kind, result, target) == [kind |-> kind, result |-> result, target |-> target]

RECURSIVE LookupWalk(_, _, _, _, _, _, _)
LookupWalk(cfg, rows, ents, store, word, targets, i) ==
    IF i > Len(targets) THEN {Walked("none", NotFound, <<>>)}
    ELSE LET name == targets[i]
             next == LookupWalk(cfg, rows, ents, store, word, targets, i + 1)
         IN IF name = ECDICT THEN next
            ELSE IF ~IsRegistered(cfg, name) THEN next
            ELSE IF ~IsActive(cfg, name) THEN next
            ELSE IF DescriptorsOf(rows, name) = {} THEN next
            ELSE LET dictId == (CHOOSE r \in DescriptorsOf(rows, name) : TRUE).id
                     hits == MatchingRows(ents, dictId, Strip(Lower(word)))
                 IN IF hits = {} THEN next
                    ELSE UNION {
                        LET content == RowContent(cfg, store, name, ents[h], word)
                        IN IF content = NoContent THEN next
                           ELSE IF LinkMatch(content)
                           THEN {Walked("redirect", NotFound, Strip(content.raw))}
                           ELSE {Walked("found", Found(ents[h].word, name, content), <<>>)}
                        : h \in hits }

\* Every outcome lookup_word(word, source, _depth) can have with the registry
\* file f, the index (rows, ents) and imported_dir (store): the result, the
\* _depth of the call that produced it, and the target_dicts of every call made.
RECURSIVE LookupWord(_, _, _, _, _, _, _)
LookupWord(f, rows, ents, store, word, source, depth) ==
    IF DepthExceeded(depth) THEN {[result |-> NotFound, depth |-> depth, walked |-> <<>>]}
    ELSE LET cfg == LoadConfig(f)
             walks == LookupWalk(cfg, rows, ents, store, word, TargetDicts(cfg, source), 1)
         IN UNION {
             IF w.kind = "redirect"
             THEN {[o EXCEPT !.walked = <<TargetDicts(cfg, source)>> \o @] :
                      o \in LookupWord(FileAfterLoad(f), rows, ents, store,
                                       w.target, source, depth + 1)}
             ELSE {[result |-> w.result, depth |-> depth,
                    walked |-> <<TargetDicts(cfg, source)>>]}
             : w \in walks }

(***************************************************************************)
(* get_resource.                                                           *)
(***************************************************************************)
\* str.lstrip(chars)
RECURSIVE LStripChars(_, _)
LStripChars(s, chars) ==
    IF s # <<>> /\ Head(s) \in chars THEN LStripChars(Tail(s), chars) ELSE s

\* str.replace("/", "\\")
ReplaceSlash(s) == [i \in DOMAIN s |-> IF s[i] = "/" THEN "\\" ELSE s[i]]

\* keys_to_try of get_resource
KeysToTry(path) ==
    << path,
       <<"\\">> \o LStripChars(path, {"/", "\\"}),
       <<"/">> \o LStripChars(path, {"/", "\\"}) >>

\* paths_to_try of MDXParser.get_resource_bytes
PathsToTry(path) ==
    << path,
       <<"\\">> \o LStripChars(path, {"/"}),
       <<"/">> \o LStripChars(path, {"/"}),
       ReplaceSlash(path) >>

\* MDXParser.get_resource_bytes: the first of the paths the archive has
RECURSIVE FirstHit(_, _, _)
FirstHit(container, paths, i) ==
    IF i > Len(paths) THEN NoContent
    ELSE IF MdxGet(container, paths[i]) # <<>> THEN MdxGet(container, paths[i])[1]
    ELSE FirstHit(container, paths, i + 1)

GetResourceBytes(container, path) == FirstHit(container, PathsToTry(path), 1)

\* get_resource(dict_name, resource_path) with the configuration self.config
\* holds: the bytes, or NoContent for None
GetResource(cfg, rows, ents, store, name, path) ==
    IF name \notin DOMAIN cfg.dicts THEN NoContent
    ELSE LET mdd == ReplaceMdxMdd(cfg.dicts[name].filename)
         IN IF mdd \notin DOMAIN store THEN NoContent
            ELSE IF DescriptorsOf(rows, name) = {} THEN NoContent
            ELSE LET dictId == (CHOOSE r \in DescriptorsOf(rows, name) : TRUE).id
                     keys == KeysToTry(path)
                 IN IF \E k \in DOMAIN keys : MatchingRows(ents, dictId, Lower(keys[k])) # {}
                    THEN GetResourceBytes(store[mdd], path)
                    ELSE NoContent

(***************************************************************************)
(* get_dicts.                                                              *)
(***************************************************************************)
\* the imported dictionaries get_dicts lists after the built-in one: those of
\* the priority list that are registered and whose {name}.mdx exists
RECURSIVE ListImported(_, _, _)
ListImported(cfg, store, i) ==
    IF i > Len(cfg.priority) THEN <<>>
    ELSE LET name == cfg.priority[i]
             rest == ListImported(cfg, store, i + 1)
         IN IF name # ECDICT /\ name \in DOMAIN cfg.dicts /\ (name \o <<".mdx">>) \in DOMAIN store
            THEN << [name |-> name, type |-> "imported",
                     word_count |-> cfg.dicts[name].word_count,
                     is_active |-> cfg.dicts[name].is_active, is_builtin |-> FALSE] >> \o rest
            ELSE rest

\* get_dicts: the built-in dictionary, then the imported ones
GetDicts(f, store) ==
    << [name |-> ECDICT, type |-> "builtin", word_count |-> 100000,
        is_active |-> TRUE, is_builtin |-> TRUE] >>
    \o ListImported(LoadConfig(f), store, 1)

(***************************************************************************)
(* check_sources and word_exists.                                          *)
(***************************************************************************)
\* check_sources(word): for every name of the priority list but the built-in
\* one, and every enabled dictionary with a row for the word, whether the index
\* of an enabled dictionary holds the lowercased, stripped word
CheckSources(f, rows, ents, word) ==
    LET cfg == LoadConfig(f)
        \* active_dicts: the registered, enabled dictionaries with a descriptor row
        ids == {r.id : r \in {r \in rows : r.name \in DOMAIN cfg.dicts
                                           /\ cfg.dicts[r.name].is_active}}
        hit == {r.name : r \in {r \in rows :
                   /\ r.id \in ids
                   /\ MatchingRows(ents, r.id, Strip(Lower(word))) # {}}}
    IN [name \in (SeqToSet(cfg.priority) \ {ECDICT}) \cup hit |-> name \in hit]

\* word_exists(word): any(check_sources(word).values())
WordExists(f, rows, ents, word) ==
    LET sources == CheckSources(f, rows, ents, word)
    IN \E name \in DOMAIN sources : sources[name]

(***************************************************************************)
(* The lemma candidates of dict_service.                                   *)
(***************************************************************************)
\* str.endswith(suffix)
EndsWith(s, suffix) ==
    /\ Len(suffix) <= Len(s)
    /\ SubSeq(s, Len(s) - Len(suffix) + 1, Len(s)) = suffix

\* word[:-n]
DropLast(s, n) == IF n >= Len(s) THEN <<>> ELSE SubSeq(s, 1, Len(s) - n)

\* str.isalpha() over the letters the model's words are written with
IsAlpha(s) ==
    LET letters ==
          {"a", "b", "c", "d", "e", "f", "g", "h", "i", "j", "k", "l", "m", "n", "o", "p",
           "q", "r", "s", "t", "u", "v", "w", "x", "y", "z", "A", "B", "C", "D", "E", "I", "T"}
    IN s # <<>> /\ \A i \in DOMAIN s : s[i] \in letters

\* some of the words of _EXCEPTION_WORDS, of its "ing", "ed" and "s" sets
ExceptionWords ==
    { <<"k", "i", "n", "g">>, <<"r", "i", "n", "g">>, <<"s", "i", "n", "g">>,
      <<"b", "e", "d">>, <<"r", "e", "d">>, <<"b", "u", "s">>, <<"g", "a", "s">> }

\* the exception test made on the word as it was typed
InExceptionWordsCased(word) == word \in ExceptionWords

\* word_lower = word.lower(); if word_lower in words: return []
InExceptionWords(word) == Lower(word) \in ExceptionWords

\* the suffix rules of _get_lemma_candidates in the order the code applies
\* them; each tests the lowercased word and cuts the word as given
Rules(word) ==
    LET wl == Lower(word)
    IN << [rule |-> "ies", out |-> IF EndsWith(wl, <<"i", "e", "s">>)
                                   THEN <<DropLast(word, 3) \o <<"y">>>> ELSE <<>>],
          [rule |-> "es", out |-> IF EndsWith(wl, <<"e", "s">>)
                                  THEN <<DropLast(word, 2)>> ELSE <<>>],
          [rule |-> "s", out |-> IF EndsWith(wl, <<"s">>) /\ ~EndsWith(wl, <<"s", "s">>)
                                 THEN <<DropLast(word, 1)>> ELSE <<>>],
          [rule |-> "ied", out |-> IF EndsWith(wl, <<"i", "e", "d">>)
                                   THEN <<DropLast(word, 3) \o <<"y">>>> ELSE <<>>],
          [rule |-> "ed", out |-> IF EndsWith(wl, <<"e", "d">>)
                                  THEN <<DropLast(word, 2), DropLast(word, 1)>> ELSE <<>>],
          [rule |-> "ing", out |-> IF EndsWith(wl, <<"i", "n", "g">>)
                                   THEN (IF Len(word) > 4 /\ word[Len(word) - 3] = word[Len(word) - 4]
                                         THEN <<DropLast(word, 4)>> ELSE <<>>)
                                        \o <<DropLast(word, 3) \o <<"e">>, DropLast(word, 3)>>
                                   ELSE <<>>],
          [rule |-> "er", out |-> IF EndsWith(wl, <<"e", "r">>)
                                  THEN (IF Len(word) > 4 /\ word[Len(word) - 2] = word[Len(word) - 3]
                                        THEN <<DropLast(word, 3)>> ELSE <<>>)
                                       \o <<DropLast(word, 2)>>
                                  ELSE <<>>],
          [rule |-> "est", out |-> IF EndsWith(wl, <<"e", "s", "t">>)
                                   THEN <<DropLast(word, 3), DropLast(word, 2)>> ELSE <<>>],
          [rule |-> "ier", out |-> IF EndsWith(wl, <<"i", "e", "r">>)
                                   THEN <<DropLast(word, 3) \o <<"y">>>> ELSE <<>>],
          [rule |-> "iest", out |-> IF EndsWith(wl, <<"i", "e", "s", "t">>)
                                    THEN <<DropLast(word, 4) \o <<"y">>>> ELSE <<>>] >>

\* the candidates of the rules from the i-th on, appended in that order
RECURSIVE Appended(_, _)
Appended(rules, i) ==
    IF i > Len(rules) THEN <<>> ELSE rules[i].out \o Appended(rules, i + 1)

\* _validate_lemma_candidates: candidates shorter than two characters are
\* dropped, the others are kept when word_exists finds them
RECURSIVE ValidateLemmaCandidates(_, _, _, _)
ValidateLemmaCandidates(cands, f, rows, ents) ==
    IF cands = <<>> THEN <<>>
    ELSE LET lemma == Head(cands)
             rest == ValidateLemmaCandidates(Tail(cands), FileAfterLoad(f), rows, ents)
         IN IF Len(lemma) < 2 THEN rest
            ELSE IF Len(lemma) <= 2 /\ ~IsAlpha(lemma) THEN rest
            ELSE IF WordExists(f, rows, ents, lemma) THEN <<lemma>> \o rest
            ELSE rest

\* _get_lemma_candidates(word, validate_candidates)
GetLemmaCandidates(word, validate, f, rows, ents) ==
    IF InExceptionWords(word) THEN <<>>
    ELSE LET candidates == Appended(Rules(word), 1)
         IN IF validate THEN ValidateLemmaCandidates(candidates, f, rows, ents)
            ELSE candidates

(***************************************************************************)
(* lookup_word of dict_service: the exact lookup, then the lemma fallback. *)
(***************************************************************************)
\* the source argument left at its default None; "" is the empty sequence,
\* which DictManager.lookup_word reads like None
SourceNone == <<"None">>

\* word.replace("\u2019", "'").replace("\u2018", "'"); each of the two
\* typographic quotes is one character
ReplaceQuotes(s) ==
    [i \in DOMAIN s |-> IF s[i] \in {"U+2018", "U+2019"} THEN "'" ELSE s[i]]

\* while word and word[-1] in chars: word = word[:-1]
RECURSIVE RStripChars(_, _)
RStripChars(s, chars) ==
    IF s # <<>> /\ s[Len(s)] \in chars THEN RStripChars(DropLast(s, 1), chars) ELSE s

TrailingPunct == {".", ",", "!", "?", ";", ":"}

\* the word as both lookups of dict_service clean it: blanks, typographic
\* quotes, punctuation at either end, and a possessive 's that is no contraction
CleanWord(word) ==
    LET LeadingPunct == TrailingPunct \cup {"\"", "'", "("}
        ContractionSuffixes ==
            { <<"n", "'", "t">>, <<"'", "m">>, <<"'", "r", "e">>, <<"'", "v", "e">>,
              <<"'", "l", "l">>, <<"'", "d">> }
        ContractionWords ==
            { <<"i", "t", "'", "s">>, <<"t", "h", "a", "t", "'", "s">>,
              <<"w", "h", "a", "t", "'", "s">>, <<"w", "h", "o", "'", "s">>,
              <<"t", "h", "e", "r", "e", "'", "s">>, <<"h", "e", "r", "e", "'", "s">>,
              <<"l", "e", "t", "'", "s">>, <<"h", "e", "'", "s">>, <<"s", "h", "e", "'", "s">>,
              <<"h", "o", "w", "'", "s">>, <<"w", "h", "e", "r", "e", "'", "s">>,
              <<"w", "h", "e", "n", "'", "s">>, <<"w", "h", "y", "'", "s">> }
        w == LStripChars(RStripChars(ReplaceQuotes(Strip(word)), TrailingPunct),
                         LeadingPunct)
        isContraction ==
            \/ \E suffix \in ContractionSuffixes : EndsWith(Lower(w), suffix)
            \/ Lower(w) \in ContractionWords
    IN IF EndsWith(w, <<"'", "s">>) /\ ~isContraction THEN DropLast(w, 2) ELSE w

\* _should_try_lemma(original_word, mdx_res); DictManager.lookup_word sets no
\* redirect_from
ShouldTryLemma(original, res) ==
    IF ~res.found THEN TRUE
    ELSE Lower(res.word) = Lower(original)

\* what a call of dict_service.lookup_word came to: the stage that answered
\* ("exact", "lemma", "aggregate", "empty" for a word cleaned to nothing,
\* "later" when the imported dictionaries gave nothing and the cache, ECDICT and
\* the network are asked), the result of the imported dictionaries, the
\* validated candidates, those looked up, the one that answered, and the
\* results of the aggregated lookup
Outcome(stage, result) ==
    [stage |-> stage, result |-> result, candidates |-> <<>>, tried |-> <<>>,
     lemma |-> <<>>, results |-> <<>>]

\* the candidates looked up from the last one to the first
RECURSIVE LemmaLoopBackwards(_, _, _, _, _, _, _, _)
LemmaLoopBackwards(f, rows, ents, store, original, source, cands, i) ==
    IF i > Len(cands)
    THEN {[Outcome("later", NotFound) EXCEPT !.tried = cands, !.candidates = cands]}
    ELSE LET k == Len(cands) - i + 1
         IN UNION {
             IF o.result.found
             THEN {[Outcome("lemma", [o.result EXCEPT !.word = original]) EXCEPT
                        !.tried = SubSeq(cands, k, Len(cands)), !.candidates = cands,
                        !.lemma = cands[k]]}
             ELSE LemmaLoopBackwards(FileAfterLoad(f), rows, ents, store, original,
                                     source, cands, i + 1)
             : o \in LookupWord(f, rows, ents, store, cands[k], source, 0) }

\* for lemma in lemma_candidates: the first candidate DictManager.lookup_word
\* has a result for is returned under the original word
RECURSIVE LemmaLoop(_, _, _, _, _, _, _, _)
LemmaLoop(f, rows, ents, store, original, source, cands, i) ==
    IF i > Len(cands)
    THEN {[Outcome("later", NotFound) EXCEPT !.tried = cands, !.candidates = cands]}
    ELSE UNION {
        IF o.result.found
        THEN {[Outcome("lemma", [o.result EXCEPT !.word = original]) EXCEPT
                   !.tried = SubSeq(cands, 1, i), !.candidates = cands,
                   !.lemma = cands[i]]}
        ELSE LemmaLoop(FileAfterLoad(f), rows, ents, store, original, source, cands, i + 1)
        : o \in LookupWord(f, rows, ents, store, cands[i], source, 0) }

\* lookup_word_all_sources: every enabled dictionary get_dicts lists is asked
\* for the word itself; no candidate is generated
RECURSIVE AskEach(_, _, _, _, _, _, _)
AskEach(f, rows, ents, store, word, names, i) ==
    IF i > Len(names) THEN {<<>>}
    ELSE UNION {
        { (IF o.result.found THEN <<o.result>> ELSE <<>>) \o rest :
            rest \in AskEach(FileAfterLoad(f), rows, ents, store, word, names, i + 1) }
        : o \in LookupWord(f, rows, ents, store, word, names[i], 0) }

LookupWordAllSources(f, rows, ents, store, word) ==
    LET w == CleanWord(word)
        dicts == GetDicts(f, store)
        active == SelectSeq(dicts, LAMBDA d : d.type = "imported" /\ d.is_active)
        names == [i \in DOMAIN active |-> active[i].name]
    IN IF w = <<>> THEN {Outcome("empty", NotFound)}
       ELSE { IF results = <<>> THEN Outcome("later", NotFound)
              ELSE [Outcome("aggregate", results[1]) EXCEPT !.results = results]
              : results \in AskEach(FileAfterLoad(f), rows, ents, store, w, names, 1) }

\* dict_service.lookup_word(db, word, source) up to the end of its lemma
\* fallback.  A result of DictManager.lookup_word always carries one meaning,
\* so the validity test on it passes.
ServiceLookupWord(f, rows, ents, store, word, source) ==
    IF source = SourceNone THEN LookupWordAllSources(f, rows, ents, store, word)
    ELSE LET original == CleanWord(word)
             f1 == FileAfterLoad(f)
         IN IF original = <<>> THEN {Outcome("empty", NotFound)}
            ELSE UNION {
                IF o.result.found THEN {Outcome("exact", o.result)}
                ELSE IF ShouldTryLemma(original, NotFound)
                THEN LemmaLoop(f1, rows, ents, store, original, source,
                               GetLemmaCandidates(original, TRUE, f1, rows, ents), 1)
                ELSE {Outcome("later", NotFound)}
                : o \in LookupWord(f, rows, ents, store, original, source, 0) }

(***************************************************************************)
(* import_dict: where the uploaded files go.                               *)
(***************************************************************************)
MdxName(name) == name \o <<".mdx">>
MddName(name) == name \o <<".mdd">>

\* a plain container: copied to {name}.mdx, the .mdd beside it to {name}.mdd
PlaceRaw(store, up, name) ==
    LET s1 == PutKey(store, MdxName(name), up.mdx)
    IN IF up.sibling # NoFile THEN PutKey(s1, MddName(name), up.sibling) ELSE s1

\* one file of the primary's directory of a bundle
PlaceMember(store, name, srcStem, m) ==
    IF Stem(m.fname) = srcStem
    THEN PutKey(store, IF Suffix(m.fname) = "" THEN name ELSE name \o <<Suffix(m.fname)>>, m.data)
    ELSE IF Suffix(m.fname) = ".mdd"
    THEN PutKey(store, MddName(name), m.data)
    ELSE LET target == name \o <<"_">> \o m.fname
         IN IF target \in DOMAIN store THEN store ELSE PutKey(store, target, m.data)

RECURSIVE PlaceMembers(_, _, _, _)
PlaceMembers(store, name, srcStem, order) ==
    IF order = <<>> THEN store
    ELSE PlaceMembers(PlaceMember(store, name, srcStem, Head(order)), name, srcStem, Tail(order))

\* a bundle: the primary to {name}.mdx, then the other files in iterdir order
PlaceZip(store, up, name, order) ==
    PlaceMembers(PutKey(store, MdxName(name), up.mdx), name, Stem(up.primary), order)

\* the orders in which iterdir can list a set of files
Orders(S) == {o \in [1..Cardinality(S) -> S] : \A x \in S : \E i \in DOMAIN o : o[i] = x}


(***************************************************************************)
(* remove_dict: which files it deletes.                                    *)
(***************************************************************************)
\* stems_to_clean
StemsToClean(cfg, name) ==
    {Lower(name)} \cup
    (IF name \in DOMAIN cfg.dicts
     THEN {Lower(Stem(cfg.dicts[name].filename)), Lower(name) \o <<"_">>}
     ELSE {})

\* only the registered container and its .mdd, without the scan of imported_dir
FilesToDeleteRegistered(cfg, store, name) ==
    {p \in DOMAIN store :
        /\ name \in DOMAIN cfg.dicts
        /\ p \in {cfg.dicts[name].filename, ReplaceMdxMdd(cfg.dicts[name].filename)}}

\* files_to_delete that exist: the registered container and its .mdd, and every
\* file of imported_dir whose lowercased name starts with one of the stems
FilesToDelete(cfg, store, name) ==
    {p \in DOMAIN store :
        \/ /\ name \in DOMAIN cfg.dicts
           /\ p \in {cfg.dicts[name].filename, ReplaceMdxMdd(cfg.dicts[name].filename)}
        \/ \E st \in StemsToClean(cfg, name) : StartsWith(Lower(p), st)}

\* DELETE FROM entries WHERE dict_id = ?; DELETE FROM dicts WHERE id = ?, for
\* every descriptor with the name
EntriesWithout(ents, ids) == SelectSeq(ents, LAMBDA e : e.dict_id \notin ids)

\* the first occurrence in the list, found by a walk that drops nothing else
RECURSIVE RemoveFirst(_, _)
RemoveFirst(s, x) ==
    IF s = <<>> THEN <<>>
    ELSE IF Head(s) = x THEN Tail(s)
    ELSE <<Head(s)>> \o RemoveFirst(Tail(s), x)

\* the registry without the record, the name taken from the priority list once
ConfigWithoutOnce(cfg, name) ==
    [cfg EXCEPT !.dicts = DelKeys(cfg.dicts, {name}),
                !.priority = RemoveFirst(cfg.priority, name)]

\* the registry without the name
ConfigWithout(cfg, name) ==
    [cfg EXCEPT !.dicts = DelKeys(cfg.dicts, {name}),
                !.priority = RemoveAll(cfg.priority, name)]

(***************************************************************************)
(* The public operations, each run to completion by one caller.            *)
(***************************************************************************)
NoThread == "none"
Threads == {"t1", "t2"}
\* the object a running _save_config was given: self.config as it is now
\* (live), or an object self.config no longer refers to, with its value
Live == [live |-> TRUE, cfg |-> DefaultConfig]
Orphan(cfg) == [live |-> FALSE, cfg |-> cfg]

\* a call of a thread: its arguments, the statement it is at, the value
\* _load_config read, the argument of _save_config, and what it returned
Idle ==
    [op |-> "idle", pc |-> "idle", name |-> <<>>, list |-> <<>>, active |-> TRUE,
     up |-> General, word |-> <<>>, source |-> NoSource, depth |-> 0,
     loaded |-> DefaultConfig, arg |-> Live, wc |-> 0, ok |-> TRUE, result |-> NotFound]

\* what lastOp holds of a call: its arguments, what it returned (ok is FALSE when
\* it raised), for a lookup the lists its calls walked and the _depth of the call
\* that produced the result, for a remove the number of clean-up steps that failed,
\* whether the index clean-up was one of them and where the name was found when
\* the call started, for a call of dict_service what Outcome describes, and
\* which call came before it
NoCall ==
    [op |-> "init", name |-> <<>>, list |-> <<>>, active |-> TRUE, word |-> <<>>,
     source |-> NoSource, ok |-> TRUE, result |-> NotFound, depth |-> 0,
     walked |-> <<>>, failures |-> 0, dbFailed |-> FALSE,
     before |-> [registered |-> FALSE, indexed |-> FALSE, stored |-> FALSE],
     stage |-> "none", candidates |-> <<>>, tried |-> <<>>, lemma |-> <<>>,
     results |-> <<>>, writes |-> <<>>,
     prev |-> "none", prevName |-> <<>>, prevList |-> <<>>, prevOk |-> TRUE]

Call(op, name, ok) ==
    [NoCall EXCEPT !.op = op, !.name = name, !.ok = ok,
                   !.prev = lastOp.op, !.prevName = lastOp.name,
                   !.prevList = lastOp.list, !.prevOk = lastOp.ok]

\* A run is a sequence of import, remove, set_priority and toggle calls and ends
\* with the lookup, the resource request or the call of dict_service whose
\* result is observed.
Ready == lastOp.op \notin {"lookup", "resource", "candidates", "service"}

Init ==
    /\ file = FileOk(DefaultConfig)
    /\ config = DefaultConfig
    /\ storage = [p \in {} |-> <<>>]
    /\ dictRows = {}
    /\ entries = <<>>
    /\ nextDictId = 1
    /\ lastOp = NoCall
    /\ calls = 0
    /\ lock = NoThread
    /\ threads = [t \in Threads |-> Idle]
    /\ opsStarted = 0

\* import_dict without the test for an existing name
NameExistsNever(cfg, name) == FALSE

\* if dict_name in self.config["dicts"]: raise ValueError
NameExists(cfg, name) == name \in DOMAIN cfg.dicts

\* import_dict(upload, name) when the registry already has the name: ValueError
ImportCollision(up, name) ==
    /\ Ready /\ calls < MaxCalls
    /\ calls' = calls + 1
    /\ NameExists(LoadConfig(file), name)
    /\ file' = FileAfterLoad(file)
    /\ config' = LoadConfig(file)
    /\ lastOp' = Call("import", name, FALSE)
    /\ UNCHANGED <<storage, dictRows, entries, nextDictId, lock, threads, opsStarted>>

\* import_dict from the copy of the files to the index of the .mdd: what it
\* leaves in imported_dir and in the index, whether it raised, and the word
\* count it goes on to register
ImportFiles(store, rows, ents, nid, up, name, order) ==
    LET placed == IF Suffix(up.path) = ".zip" THEN PlaceZip(store, up, name, order)
                  ELSE PlaceRaw(store, up, name)
        ix1 == CreateIndex(placed[MdxName(name)], FALSE, name, rows, ents, nid)
        withMdd == up.sibling # NoFile
        \* _get_or_create_dict_id stats the file it is given
        raised == withMdd /\ MddName(name) \notin DOMAIN placed
        ix2 == IF withMdd /\ ~raised
               THEN CreateIndex(placed[MddName(name)], TRUE, name, ix1.rows, ix1.entries, ix1.nid)
               ELSE ix1
    IN [storage |-> placed, rows |-> ix2.rows, entries |-> ix2.entries, nid |-> ix2.nid,
        raised |-> raised, word_count |-> ix1.word_count]

\* self.config["dicts"][dict_name] = {...}; self.config["priority"].insert(0, dict_name)
ConfigWith(cfg, name, wc) ==
    [cfg EXCEPT !.dicts = PutKey(cfg.dicts, name, DictRecord(name, wc)),
                !.priority = Prepend(name, cfg.priority)]

\* import_dict(upload, name) for a new name
ImportNew(up, name) ==
    /\ ~NameExists(LoadConfig(file), name)
    /\ Ready /\ calls < MaxCalls
    /\ calls' = calls + 1
    /\ \E order \in Orders(up.members) :
        LET cfg == LoadConfig(file)
            e == ImportFiles(storage, dictRows, entries, nextDictId, up, name, order)
            cfg2 == ConfigWith(cfg, name, e.word_count)
        IN /\ storage' = e.storage
           /\ dictRows' = e.rows
           /\ entries' = e.entries
           /\ nextDictId' = e.nid
           /\ file' = IF e.raised THEN FileAfterLoad(file) ELSE SaveConfig(cfg2)
           /\ config' = IF e.raised THEN cfg ELSE cfg2
           /\ lastOp' = Call("import", name, ~e.raised)
    /\ UNCHANGED <<lock, threads, opsStarted>>

ImportDict(up, name) == ImportCollision(up, name) \/ ImportNew(up, name)

\* remove_dict that lets the first failing unlink propagate: the files before
\* it are deleted, the index and the registry are left as they are
RemoveDictAborting(name) ==
    /\ Ready /\ calls < MaxCalls
    /\ calls' = calls + 1
    /\ \E failed \in SUBSET FilesToDelete(LoadConfig(file), storage, name), dbFails \in BOOLEAN :
         LET cfg == LoadConfig(file)
             gone == FilesToDelete(cfg, storage, name) \ failed
             ids == {r.id : r \in DescriptorsOf(dictRows, name)}
             aborted == failed # {}
         IN /\ storage' = DelKeys(storage, gone)
            /\ dictRows' = IF dbFails \/ aborted THEN dictRows
                           ELSE dictRows \ DescriptorsOf(dictRows, name)
            /\ entries' = IF dbFails \/ aborted THEN entries ELSE EntriesWithout(entries, ids)
            /\ file' = IF aborted THEN FileAfterLoad(file) ELSE SaveConfig(ConfigWithout(cfg, name))
            /\ config' = IF aborted THEN cfg ELSE ConfigWithout(cfg, name)
            /\ lastOp' = [Call("remove", name, ~aborted) EXCEPT
                              !.failures = Cardinality(failed) + (IF dbFails THEN 1 ELSE 0),
                              !.dbFailed = dbFails,
                              !.before = [registered |-> name \in DOMAIN cfg.dicts,
                                          indexed |-> DescriptorsOf(dictRows, name) # {},
                                          stored |-> FilesToDelete(cfg, storage, name) # {}]]
            /\ UNCHANGED <<nextDictId, lock, threads, opsStarted>>

\* remove_dict(name); unlink may fail for any of the files, and the index
\* cleanup may fail as a whole (both are caught and logged)
RemoveDict(name) ==
    /\ Ready /\ calls < MaxCalls
    /\ calls' = calls + 1
    /\ \E failed \in SUBSET FilesToDelete(LoadConfig(file), storage, name), dbFails \in BOOLEAN :
         LET cfg == LoadConfig(file)
             gone == FilesToDelete(cfg, storage, name) \ failed
             ids == {r.id : r \in DescriptorsOf(dictRows, name)}
         IN /\ storage' = DelKeys(storage, gone)
            /\ dictRows' = IF dbFails THEN dictRows ELSE dictRows \ DescriptorsOf(dictRows, name)
            /\ entries' = IF dbFails THEN entries ELSE EntriesWithout(entries, ids)
            /\ file' = SaveConfig(ConfigWithout(cfg, name))
            /\ config' = ConfigWithout(cfg, name)
            /\ lastOp' = [Call("remove", name, TRUE) EXCEPT
                              !.failures = Cardinality(failed) + (IF dbFails THEN 1 ELSE 0),
                              !.dbFailed = dbFails,
                              !.before = [registered |-> name \in DOMAIN cfg.dicts,
                                          indexed |-> DescriptorsOf(dictRows, name) # {},
                                          stored |-> FilesToDelete(cfg, storage, name) # {}]]
            /\ UNCHANGED <<nextDictId, lock, threads, opsStarted>>

\* set_priority that changes self.config and does not save it
SetPriorityUnsaved(list) ==
    LET cfg == [LoadConfig(file) EXCEPT !.priority = list]
    IN /\ Ready /\ calls < MaxCalls
       /\ calls' = calls + 1
       /\ file' = FileAfterLoad(file)
       /\ config' = cfg
       /\ lastOp' = [Call("set_priority", <<>>, TRUE) EXCEPT !.list = list]
       /\ UNCHANGED <<storage, dictRows, entries, nextDictId, lock, threads, opsStarted>>

\* set_priority(priority_list)
SetPriority(list) ==
    LET cfg == [LoadConfig(file) EXCEPT !.priority = list]
    IN /\ Ready /\ calls < MaxCalls
       /\ calls' = calls + 1
       /\ file' = SaveConfig(cfg)
       /\ config' = cfg
       /\ lastOp' = [Call("set_priority", <<>>, TRUE) EXCEPT !.list = list]
       /\ UNCHANGED <<storage, dictRows, entries, nextDictId, lock, threads, opsStarted>>

\* toggle_dict that sets the flag of every record
ToggleDictAll(name, active) ==
    LET cfg == LoadConfig(file)
        cfg2 == [cfg EXCEPT !.dicts = [n \in DOMAIN cfg.dicts |->
                                          [cfg.dicts[n] EXCEPT !.is_active = active]]]
    IN /\ Ready /\ calls < MaxCalls
       /\ calls' = calls + 1
       /\ IF name \in DOMAIN cfg.dicts
          THEN file' = SaveConfig(cfg2) /\ config' = cfg2
          ELSE file' = FileAfterLoad(file) /\ config' = cfg
       /\ lastOp' = [Call("toggle", name, TRUE) EXCEPT !.active = active]
       /\ UNCHANGED <<storage, dictRows, entries, nextDictId, lock, threads, opsStarted>>

\* toggle_dict(name, is_active)
ToggleDict(name, active) ==
    LET cfg == LoadConfig(file)
        cfg2 == [cfg EXCEPT !.dicts[name].is_active = active]
    IN /\ Ready /\ calls < MaxCalls
       /\ calls' = calls + 1
       /\ IF name \in DOMAIN cfg.dicts
          THEN file' = SaveConfig(cfg2) /\ config' = cfg2
          ELSE file' = FileAfterLoad(file) /\ config' = cfg
       /\ lastOp' = [Call("toggle", name, TRUE) EXCEPT !.active = active]
       /\ UNCHANGED <<storage, dictRows, entries, nextDictId, lock, threads, opsStarted>>

\* lookup_word(word, source)
Lookup(word, source) ==
    /\ Ready
    /\ \E o \in LookupWord(file, dictRows, entries, storage, word, source, 0) :
         /\ file' = FileAfterLoad(file)
         /\ config' = LoadConfig(file)
         /\ lastOp' = [Call("lookup", <<>>, TRUE) EXCEPT
                           !.word = word, !.source = source, !.result = o.result,
                           !.depth = o.depth, !.walked = o.walked]
         /\ UNCHANGED <<storage, dictRows, entries, nextDictId, calls, lock, threads, opsStarted>>

\* lookup_dict_word(dict_name, word) of routers/dicts.py: the priority list of
\* self.config is replaced by [dict_name], lookup_word(word) assigns self.config
\* the registry it loads and searches the dictionaries that one lists, and the
\* finally clause gives the list saved before the call to the loaded registry;
\* a result of None is answered with 404
LookupDictWord(name, word) ==
    /\ Ready
    /\ LET old_priority == config.priority
       IN \E o \in LookupWord(file, dictRows, entries, storage, word, NoSource, 0) :
            /\ file' = FileAfterLoad(file)
            /\ config' = [LoadConfig(file) EXCEPT !.priority = old_priority]
            /\ lastOp' = [Call("dict_lookup", name, o.result.found) EXCEPT
                              !.word = word, !.result = o.result,
                              !.depth = o.depth, !.walked = o.walked]
    /\ UNCHANGED <<storage, dictRows, entries, nextDictId, calls, lock, threads, opsStarted>>

\* get_resource(dict_name, resource_path)
Resource(name, path) ==
    /\ Ready
    /\ LET bytes == GetResource(config, dictRows, entries, storage, name, path)
       IN lastOp' = [Call("resource", name, TRUE) EXCEPT
                         !.word = path,
                         !.result = IF bytes = NoContent THEN NotFound
                                    ELSE Found(path, name, bytes)]
    /\ UNCHANGED <<file, config, storage, dictRows, entries, nextDictId, calls, lock,
                   threads, opsStarted>>

\* set_priority is called with the empty list, both orders, a registered name
\* left out, and a list with a name twice around ECDICT
Next ==
    \/ \E up \in Uploads, name \in DictNames : ImportDict(up, name)
    \/ \E name \in DictNames : RemoveDict(name)
    \/ \E list \in { <<>>, <<En, Eng>>, <<Eng, En>>, <<Eng>>, <<En, ECDICT, Eng, En>> } :
           SetPriority(list)
    \/ \E name \in DictNames, active \in BOOLEAN : ToggleDict(name, active)
    \/ \E word \in { <<" ", "C", "A", "T">>, Cats, Ox, Oxen, WA },
          source \in DictNames \cup {NoSource, ECDICT} : Lookup(word, source)
    \/ \E name \in DictNames, path \in ResourcePaths : Resource(name, path)

Spec == Init /\ [][Next]_vars


(***************************************************************************)
(* The calls of dict_service on an engine that holds one dictionary.       *)
(***************************************************************************)
Study == <<"s", "t", "u", "d", "y">>
Studying == <<"s", "t", "u", "d", "y", "i", "n", "g">>
Be == <<"b", "e">>
CapBed == <<"B", "e", "d">>

\* the entries a dictionary of base forms may hold; "ties" is an inflected form
\* with an entry of its own
LemmaMdx ==
    << Entry(Study, Html(1)), Entry(<<"t", "y">>, Html(2)), Entry(<<"t", "i", "e">>, Html(3)),
       Entry(Be, Html(4)), Entry(WA, Html(5)), Entry(<<"t", "i", "e", "s">>, Html(6)) >>

\* the words asked for: inflected forms, a word as a sentence has it, words of
\* the exception list (one capitalised), and a word whose candidate is one letter
LemmaQueries ==
    { Studying, CapBed, <<"k", "i", "n", "g">>, <<"a", "s">>,
      <<"t", "i", "e", "s">>, <<"t", "i", "e", "d">>, <<"t", "i", "e", "r">>,
      <<"d", "r", "i", "e", "s", "t">>, <<"r", "u", "n", "n", "i", "n", "g">>,
      <<" ", "T", "i", "e", "d", ".">> }

\* _get_lemma_candidates(word, validate_candidates)
Candidates(word, validate) ==
    /\ Ready
    /\ LET raw == GetLemmaCandidates(word, FALSE, file, dictRows, entries)
           \* word_exists is called for the candidates that pass the length tests
           asked == validate /\ \E i \in DOMAIN raw :
                        Len(raw[i]) >= 2 /\ ~(Len(raw[i]) <= 2 /\ ~IsAlpha(raw[i]))
       IN /\ lastOp' = [Call("candidates", <<>>, TRUE) EXCEPT
                            !.word = word, !.active = validate,
                            !.candidates = GetLemmaCandidates(word, validate, file,
                                                              dictRows, entries)]
          /\ file' = IF asked THEN FileAfterLoad(file) ELSE file
          /\ config' = IF asked THEN LoadConfig(file) ELSE config
    /\ UNCHANGED <<storage, dictRows, entries, nextDictId, calls, lock, threads, opsStarted>>

\* dict_service.lookup_word(db, word, source)
ServiceLookup(word, source) ==
    /\ Ready
    /\ \E o \in ServiceLookupWord(file, dictRows, entries, storage, word, source) :
         /\ lastOp' = [Call("service", <<>>, TRUE) EXCEPT
                           !.word = word, !.source = source, !.result = o.result,
                           !.stage = o.stage, !.candidates = o.candidates,
                           !.tried = o.tried, !.lemma = o.lemma, !.results = o.results]
         /\ file' = IF o.stage = "empty" THEN file ELSE FileAfterLoad(file)
         /\ config' = IF o.stage = "empty" THEN config ELSE LoadConfig(file)
    /\ UNCHANGED <<storage, dictRows, entries, nextDictId, calls, lock, threads, opsStarted>>

\* the dictionary, a .mdx holding any of the entries above in their order, is
\* imported, enabled and disabled, and dict_service is called;
\* the source argument of dict_service.lookup_word is None, "", the dictionary
\* or a name that is not registered
NextLemma ==
    \/ \E S \in SUBSET SeqToSet(LemmaMdx) :
           ImportDict(RawUpload(<<"l", ".mdx">>, SelectSeq(LemmaMdx, LAMBDA e : e \in S), NoFile),
                      En)
    \/ \E active \in BOOLEAN : ToggleDict(En, active)
    \/ \E word \in LemmaQueries, validate \in BOOLEAN : Candidates(word, validate)
    \/ \E word \in LemmaQueries, source \in {SourceNone, NoSource, En, Eng} :
           ServiceLookup(word, source)

SpecLemma == Init /\ [][NextLemma]_vars


(***************************************************************************)
(* Lookups in dictionaries whose entries redirect.                         *)
(***************************************************************************)
\* a bundle whose primary f.mdx has next to it the resource archive of its own
\* stem, a resource archive of another stem and a stylesheet of another stem
Assets ==
    ZipUpload(<<"a", ".zip">>, <<"f", ".mdx">>, << Entry(<<"t">>, Html(11)) >>,
              { Member(<<"f", ".mdd">>, MddRes),
                Member(<<"h", ".mdd">>, << Entry(<<"\\", "h">>, Html(10)) >>),
                Member(<<"g", ".css">>, <<>>) })

\* a dictionary or the bundle is imported under either name, the priority list is
\* set, and a word is looked up.  The first dictionary is one of redirects: "p" leads to the
\* definition of "s" over three redirects and "o" over four; the target of "m" is
\* empty and that of "n" a blank; "x" and "z" redirect to words the dictionary does
\* not have.  The second defines "y", "z" and "s".  The third has an empty key, a
\* key that cannot be decoded and a key of which one byte cannot.
NextLinks ==
    \/ \E mdx \in { << Entry(<<"o">>, Link(<<"p">>)), Entry(<<"p">>, Link(<<"q">>)),
                       Entry(<<"q">>, Link(<<"r">>)), Entry(<<"r">>, Link(<<"s">>)),
                       Entry(<<"s">>, Html(1)), Entry(<<"m">>, Link(<<>>)),
                       Entry(<<"n">>, Link(<<" ">>)), Entry(<<"x">>, Link(<<"y">>)),
                       Entry(<<"z">>, Link(<<"v">>)) >>,
                    << Entry(<<"y">>, Html(2)), Entry(<<"z">>, Html(3)),
                       Entry(<<"s">>, Html(4)) >>,
                    << Entry(<<>>, Html(5)), Entry(<<"\\xff">>, Html(6)),
                       Entry(<<"k", "\\xff">>, Html(7)), Entry(<<"j">>, Html(8)) >> },
          name \in DictNames :
           ImportDict(RawUpload(<<"l", ".mdx">>, mdx, NoFile), name)
    \/ \E name \in DictNames : ImportDict(Assets, name)
    \/ \E list \in {<<En, Eng>>, <<Eng, En>>} : SetPriority(list)
    \/ \E word \in {<<"o">>, <<"p">>, <<"m">>, <<"n">>, <<"x">>, <<"z">>},
          source \in {NoSource, En, Eng} : Lookup(word, source)

SpecLinks == Init /\ [][NextLinks]_vars


(***************************************************************************)
(* Two engine instances on one data directory: the routers and            *)
(* dict_service each build a DictManager of their own.  The calls above    *)
(* are made on one of them; the other imports, removes and toggles, which  *)
(* writes the registry file, the index and imported_dir and leaves the     *)
(* attribute config of the first as it is.                                 *)
(***************************************************************************)
\* import_dict(upload, name) on the other instance, for a new name
PeerImport(up, name) ==
    /\ Ready /\ calls < MaxCalls
    /\ calls' = calls + 1
    /\ ~NameExists(LoadConfig(file), name)
    /\ \E order \in Orders(up.members) :
        LET e == ImportFiles(storage, dictRows, entries, nextDictId, up, name, order)
        IN /\ storage' = e.storage
           /\ dictRows' = e.rows
           /\ entries' = e.entries
           /\ nextDictId' = e.nid
           /\ file' = IF e.raised THEN FileAfterLoad(file)
                      ELSE SaveConfig(ConfigWith(LoadConfig(file), name, e.word_count))
    /\ UNCHANGED <<config, lastOp, lock, threads, opsStarted>>

\* remove_dict(name) on the other instance
PeerRemove(name) ==
    /\ Ready /\ calls < MaxCalls
    /\ calls' = calls + 1
    /\ LET cfg == LoadConfig(file)
           ids == {r.id : r \in DescriptorsOf(dictRows, name)}
       IN /\ storage' = DelKeys(storage, FilesToDelete(cfg, storage, name))
          /\ dictRows' = dictRows \ DescriptorsOf(dictRows, name)
          /\ entries' = EntriesWithout(entries, ids)
          /\ file' = SaveConfig(ConfigWithout(cfg, name))
    /\ UNCHANGED <<config, nextDictId, lastOp, lock, threads, opsStarted>>

\* toggle_dict(name, is_active) on the other instance
PeerToggle(name, active) ==
    /\ Ready /\ calls < MaxCalls
    /\ calls' = calls + 1
    /\ file' = IF name \in DOMAIN LoadConfig(file).dicts
               THEN SaveConfig([LoadConfig(file) EXCEPT !.dicts[name].is_active = active])
               ELSE FileAfterLoad(file)
    /\ UNCHANGED <<config, storage, dictRows, entries, nextDictId, lastOp, lock, threads,
                   opsStarted>>

NextPeer ==
    \/ \E up \in Uploads, name \in DictNames : ImportDict(up, name)
    \/ ImportDict(General, ECDICT)
    \/ \E name \in DictNames : RemoveDict(name)
    \/ \E name \in DictNames, active \in BOOLEAN : ToggleDict(name, active)
    \/ \E word \in {Cats, Ox}, source \in {NoSource, En} : Lookup(word, source)
    \/ \E name \in DictNames, path \in ResourcePaths : Resource(name, path)
    \/ \E name \in DictNames, word \in {Cats, Ox} : LookupDictWord(name, word)
    \/ \E up \in Uploads, name \in DictNames : PeerImport(up, name)
    \/ \E name \in DictNames : PeerRemove(name)
    \/ \E name \in DictNames, active \in BOOLEAN : PeerToggle(name, active)

SpecPeer == Init /\ [][NextPeer]_vars

(***************************************************************************)
(* The registry file an instance finds when it is constructed.             *)
(***************************************************************************)
\* DictManager() begins on a data directory as an earlier process left it: the
\* registry file is missing, empty, cut short, or holds a registry
InitLoad ==
    /\ file \in { [state |-> "missing", cfg |-> DefaultConfig], FileEmpty, FileGarbage }
               \cup { FileOk(cfg) : cfg \in { DefaultConfig,
                                              ConfigWith(DefaultConfig, En, 3),
                                              [ConfigWith(DefaultConfig, En, 3) EXCEPT
                                                   !.priority = <<ECDICT, En>>] } }
    /\ config = DefaultConfig
    /\ storage = [p \in {} |-> <<>>]
    /\ dictRows = {}
    /\ entries = <<>>
    /\ nextDictId = 1
    /\ lastOp = NoCall
    /\ calls = 0
    /\ lock = NoThread
    /\ threads = [t \in Threads |-> Idle]
    /\ opsStarted = 0

\* self.config = self._load_config(), as __init__ and get_dicts run it; the call
\* record keeps the state the file was found in
Reload ==
    /\ Ready
    /\ file' = FileAfterLoad(file)
    /\ config' = LoadConfig(file)
    /\ lastOp' = [Call("load", <<>>, TRUE) EXCEPT !.stage = file.state]
    /\ UNCHANGED <<storage, dictRows, entries, nextDictId, calls, lock, threads, opsStarted>>

\* the registry is loaded, and saved by set_priority and toggle_dict
NextLoad ==
    \/ Reload
    \/ \E list \in { <<>>, <<En, ECDICT>>, <<Eng, En>> } : SetPriority(list)
    \/ \E active \in BOOLEAN : ToggleDict(En, active)

SpecLoad == InitLoad /\ [][NextLoad]_vars

(***************************************************************************)
(* Imports of containers of more than one batch, with index writes that    *)
(* fail.                                                                   *)
(***************************************************************************)
\* import_dict(b.mdx, name) of a container of n entries "1" .. "n" for a new name; the
\* executemany calls numbered in fails raise.  lastOp.writes lists, for each
\* executemany of the call, whether it was committed.
ImportBatched(n, name, fails) ==
    /\ Ready /\ calls < MaxCalls
    /\ calls' = calls + 1
    /\ ~NameExists(LoadConfig(file), name)
    /\ LET cfg == LoadConfig(file)
           mdx == [i \in 1..n |-> Entry(<<ToString(i)>>, Html(1))]
           placed == PlaceRaw(storage, RawUpload(<<"b", ".mdx">>, mdx, NoFile), name)
           ix == CreateIndexFailing(placed[MdxName(name)], name, dictRows, entries,
                                    nextDictId, fails)
           cfg2 == ConfigWith(cfg, name, ix.word_count)
       IN /\ storage' = placed
          /\ dictRows' = ix.rows
          /\ entries' = ix.entries
          /\ nextDictId' = ix.nid
          /\ file' = IF ix.raised THEN FileAfterLoad(file) ELSE SaveConfig(cfg2)
          /\ config' = IF ix.raised THEN cfg ELSE cfg2
          /\ lastOp' = [Call("import", name, ~ix.raised) EXCEPT !.writes = ix.outcomes]
    /\ UNCHANGED <<lock, threads, opsStarted>>

\* containers of one batch and a rest and of two batches and a rest are
\* imported under one name, which is disabled before or after, and the first
\* entry of the first and of the second batch are looked up
NextBatch ==
    \/ \E n \in {BatchSize + 1, 2 * BatchSize + 1}, fails \in SUBSET {1, 2, 3} :
           ImportBatched(n, En, fails)
    \/ ToggleDict(En, FALSE)
    \/ \E word \in { <<"1">>, <<"1001">> } : Lookup(word, NoSource)

SpecBatch == Init /\ [][NextBatch]_vars

(***************************************************************************)
(* The same engine instance called from several threads (the routers run   *)
(* the calls in a thread pool on one DictManager).  A step is one access   *)
(* to dicts_config.json, one assignment to self.config or one change of    *)
(* the object it refers to, the work on imported_dir and the index of one  *)
(* call, or the acquisition of self._lock.                                 *)
(***************************************************************************)
\* the calls the threads make
ConcCalls ==
    {[Idle EXCEPT !.op = "import", !.pc = "load", !.up = Bundle, !.name = n] : n \in DictNames}
    \cup {[Idle EXCEPT !.op = "remove", !.pc = "acquire", !.name = n] : n \in {En}}
    \cup {[Idle EXCEPT !.op = "set_priority", !.pc = "load", !.list = l] :
             l \in { <<>>, <<ECDICT, En>> }}
    \cup {[Idle EXCEPT !.op = "toggle", !.pc = "load", !.name = n, !.active = FALSE] :
             n \in DictNames}
    \cup {[Idle EXCEPT !.op = "lookup", !.pc = "load", !.word = w] : w \in {Cats, Ox}}

\* the engine after import_dict(General, "en") on a fresh data directory
InitConc ==
    LET e == ImportFiles([p \in {} |-> <<>>], {}, <<>>, 1, General, En, <<>>)
        cfg == ConfigWith(DefaultConfig, En, e.word_count)
    IN /\ file = SaveConfig(cfg)
       /\ config = cfg
       /\ storage = e.storage
       /\ dictRows = e.rows
       /\ entries = e.entries
       /\ nextDictId = e.nid
       /\ lastOp = NoCall
       /\ calls = 1
       /\ lock = NoThread
       /\ threads = [t \in Threads |-> Idle]
       /\ opsStarted = 0

At(t, pc) == threads[t].pc = pc
Goto(t, pc) == [threads EXCEPT ![t].pc = pc]

\* self.config = <another object>: a _save_config of another thread that was
\* given the object self.config referred to keeps that object
Reassigned(ts, t) ==
    [u \in Threads |->
        IF u # t /\ ts[u].pc \in {"write", "sassign"} /\ ts[u].arg.live
        THEN [ts[u] EXCEPT !.arg = Orphan(config)] ELSE ts[u]]

\* json.dump and close on a file opened with "w": the file holds the value when
\* nothing was written since the open truncated it; written over the bytes of
\* another writer it holds the value or, when those were longer, bytes that
\* json.load rejects
Written(f, cfg) == IF f.state = "empty" THEN {FileOk(cfg)} ELSE {FileOk(cfg), FileGarbage}

\* the value of the object _save_config was given
ArgValue(t) == IF threads[t].arg.live THEN config ELSE threads[t].arg.cfg

\* a thread calls a public method
Begin(t, call) ==
    /\ threads[t].pc \in {"idle", "done"}
    /\ opsStarted < MaxOps
    /\ opsStarted' = opsStarted + 1
    /\ threads' = [threads EXCEPT ![t] = call]
    /\ UNCHANGED <<file, config, storage, dictRows, entries, nextDictId, lastOp, calls, lock>>

\* remove_dict: with self._lock
Acquire(t) ==
    /\ At(t, "acquire")
    /\ lock = NoThread
    /\ lock' = t
    /\ threads' = Goto(t, "load")
    /\ UNCHANGED <<file, config, storage, dictRows, entries, nextDictId, lastOp, calls, opsStarted>>

\* _load_config: json.load succeeds
LoadParsed(t) ==
    /\ At(t, "load")
    /\ file.state = "ok"
    /\ threads' = [threads EXCEPT ![t].loaded = LoadConfig(file), ![t].pc = "assign"]
    /\ UNCHANGED <<file, config, storage, dictRows, entries, nextDictId, lastOp, calls, lock, opsStarted>>

\* _load_config: json.load raises, the default configuration is to be saved
LoadFailed(t) ==
    /\ At(t, "load")
    /\ file.state # "ok"
    /\ threads' = [threads EXCEPT ![t].loaded = LoadConfig(file), ![t].pc = "dopen"]
    /\ UNCHANGED <<file, config, storage, dictRows, entries, nextDictId, lastOp, calls, lock, opsStarted>>

\* _save_config(default_config): open(config_file, "w")
DefaultOpen(t) ==
    /\ At(t, "dopen")
    /\ file' = FileEmpty
    /\ threads' = Goto(t, "dwrite")
    /\ UNCHANGED <<config, storage, dictRows, entries, nextDictId, lastOp, calls, lock, opsStarted>>

\* _save_config(default_config): json.dump and close
DefaultWrite(t) ==
    /\ At(t, "dwrite")
    /\ file' \in Written(file, threads[t].loaded)
    /\ threads' = Goto(t, "dassign")
    /\ UNCHANGED <<config, storage, dictRows, entries, nextDictId, lastOp, calls, lock, opsStarted>>

\* _save_config(default_config): self.config = config (the caller then assigns
\* the same object again)
DefaultAssign(t) ==
    /\ At(t, "dassign")
    /\ config' = threads[t].loaded
    /\ threads' = [Reassigned(threads, t) EXCEPT ![t].pc = "assign"]
    /\ UNCHANGED <<file, storage, dictRows, entries, nextDictId, lastOp, calls, lock, opsStarted>>

\* the statement that follows self.config = self._load_config() in each method
BodyOf(op) ==
    CASE op = "import" -> "check"
      [] op = "remove" -> "clean"
      [] op = "lookup" -> "walk"
      [] OTHER -> "mutate"

\* self.config = self._load_config()
Assign(t) ==
    /\ At(t, "assign")
    /\ config' = threads[t].loaded
    /\ threads' = [Reassigned(threads, t) EXCEPT ![t].pc = BodyOf(threads[t].op)]
    /\ UNCHANGED <<file, storage, dictRows, entries, nextDictId, lastOp, calls, lock, opsStarted>>

\* import_dict: if dict_name in self.config["dicts"]: raise ValueError
ImportCheck(t) ==
    /\ At(t, "check")
    /\ threads' = IF NameExists(config, threads[t].name)
                  THEN [threads EXCEPT ![t].pc = "done", ![t].ok = FALSE]
                  ELSE Goto(t, "place")
    /\ UNCHANGED <<file, config, storage, dictRows, entries, nextDictId, lastOp, calls, lock, opsStarted>>

\* import_dict: the files are copied and indexed
ImportPlace(t) ==
    /\ At(t, "place")
    /\ \E order \in Orders(threads[t].up.members) :
         LET e == ImportFiles(storage, dictRows, entries, nextDictId,
                              threads[t].up, threads[t].name, order)
         IN /\ storage' = e.storage
            /\ dictRows' = e.rows
            /\ entries' = e.entries
            /\ nextDictId' = e.nid
            /\ threads' = IF e.raised
                          THEN [threads EXCEPT ![t].pc = "done", ![t].ok = FALSE]
                          ELSE [threads EXCEPT ![t].pc = "register", ![t].wc = e.word_count]
    /\ UNCHANGED <<file, config, lastOp, calls, lock, opsStarted>>

\* import_dict: self.config["dicts"][dict_name] = {...}
ImportRegister(t) ==
    /\ At(t, "register")
    /\ config' = [config EXCEPT !.dicts = PutKey(config.dicts, threads[t].name,
                                                 DictRecord(threads[t].name, threads[t].wc))]
    /\ threads' = Goto(t, "prioritize")
    /\ UNCHANGED <<file, storage, dictRows, entries, nextDictId, lastOp, calls, lock, opsStarted>>

\* import_dict: self.config["priority"].insert(0, dict_name), on the object
\* self.config refers to now
ImportPrioritize(t) ==
    /\ At(t, "prioritize")
    /\ config' = [config EXCEPT !.priority = Prepend(threads[t].name, config.priority)]
    /\ threads' = Goto(t, "open")
    /\ UNCHANGED <<file, storage, dictRows, entries, nextDictId, lastOp, calls, lock, opsStarted>>

\* remove_dict: the files and the index rows are deleted
RemoveClean(t) ==
    /\ At(t, "clean")
    /\ LET ids == {r.id : r \in DescriptorsOf(dictRows, threads[t].name)}
       IN /\ storage' = DelKeys(storage, FilesToDelete(config, storage, threads[t].name))
          /\ dictRows' = dictRows \ DescriptorsOf(dictRows, threads[t].name)
          /\ entries' = EntriesWithout(entries, ids)
    /\ threads' = Goto(t, "unregister")
    /\ UNCHANGED <<file, config, nextDictId, lastOp, calls, lock, opsStarted>>

\* remove_dict: the name is taken out of self.config
RemoveUnregister(t) ==
    /\ At(t, "unregister")
    /\ config' = ConfigWithout(config, threads[t].name)
    /\ threads' = Goto(t, "open")
    /\ UNCHANGED <<file, storage, dictRows, entries, nextDictId, lastOp, calls, lock, opsStarted>>

\* set_priority: self.config["priority"] = priority_list
SetPriorityMutate(t) ==
    /\ At(t, "mutate") /\ threads[t].op = "set_priority"
    /\ config' = [config EXCEPT !.priority = threads[t].list]
    /\ threads' = Goto(t, "open")
    /\ UNCHANGED <<file, storage, dictRows, entries, nextDictId, lastOp, calls, lock, opsStarted>>

\* toggle_dict: the flag is set if the name is registered
ToggleMutate(t) ==
    /\ At(t, "mutate") /\ threads[t].op = "toggle"
    /\ IF threads[t].name \in DOMAIN config.dicts
       THEN /\ config' = [config EXCEPT !.dicts[threads[t].name].is_active = threads[t].active]
            /\ threads' = Goto(t, "open")
       ELSE /\ config' = config
            /\ threads' = Goto(t, "done")
    /\ UNCHANGED <<file, storage, dictRows, entries, nextDictId, lastOp, calls, lock, opsStarted>>

\* lookup_word: the walk over target_dicts; a redirect is the call of
\* lookup_word for the target at _depth + 1
LookupStep(t) ==
    /\ At(t, "walk")
    /\ \E w \in LookupWalk(config, dictRows, entries, storage, threads[t].word,
                           TargetDicts(config, threads[t].source), 1) :
         threads' =
            IF w.kind # "redirect"
            THEN [threads EXCEPT ![t].pc = "done", ![t].result = w.result]
            ELSE IF DepthExceeded(threads[t].depth + 1)
            THEN [threads EXCEPT ![t].pc = "done", ![t].depth = @ + 1, ![t].result = NotFound]
            ELSE [threads EXCEPT ![t].pc = "load", ![t].depth = @ + 1, ![t].word = w.target]
    /\ UNCHANGED <<file, config, storage, dictRows, entries, nextDictId, lastOp, calls, lock, opsStarted>>

\* _save_config(self.config): open(config_file, "w")
SaveOpen(t) ==
    /\ At(t, "open")
    /\ file' = FileEmpty
    /\ threads' = [threads EXCEPT ![t].pc = "write", ![t].arg = Live]
    /\ UNCHANGED <<config, storage, dictRows, entries, nextDictId, lastOp, calls, lock, opsStarted>>

\* _save_config(self.config): json.dump and close
SaveWrite(t) ==
    /\ At(t, "write")
    /\ file' \in Written(file, ArgValue(t))
    /\ threads' = Goto(t, "sassign")
    /\ UNCHANGED <<config, storage, dictRows, entries, nextDictId, lastOp, calls, lock, opsStarted>>

\* _save_config(self.config): self.config = config, and the method returns
\* (remove_dict leaves its with block)
SaveAssign(t) ==
    /\ At(t, "sassign")
    /\ config' = ArgValue(t)
    /\ threads' = [(IF threads[t].arg.live THEN threads ELSE Reassigned(threads, t))
                      EXCEPT ![t].pc = "done", ![t].arg = Live]
    /\ lock' = IF lock = t THEN NoThread ELSE lock
    /\ UNCHANGED <<file, storage, dictRows, entries, nextDictId, lastOp, calls, opsStarted>>

NextConc ==
    \E t \in Threads :
        \/ \E call \in ConcCalls : Begin(t, call)
        \/ Acquire(t)
        \/ LoadParsed(t)
        \/ LoadFailed(t)
        \/ DefaultOpen(t)
        \/ DefaultWrite(t)
        \/ DefaultAssign(t)
        \/ Assign(t)
        \/ ImportCheck(t)
        \/ ImportPlace(t)
        \/ ImportRegister(t)
        \/ ImportPrioritize(t)
        \/ RemoveClean(t)
        \/ RemoveUnregister(t)
        \/ SetPriorityMutate(t)
        \/ ToggleMutate(t)
        \/ LookupStep(t)
        \/ SaveOpen(t)
        \/ SaveWrite(t)
        \/ SaveAssign(t)

SpecConc == InitConc /\ [][NextConc]_vars


(***************************************************************************)
(* Properties of the operations run one at a time.                         *)
(***************************************************************************)
IsLookup == lastOp.op = "lookup"

\* rows of the index that lookup_word can get for a word in a dictionary
RowsFor(name, word) ==
    IF DescriptorsOf(dictRows, name) = {} THEN {}
    ELSE {entries[i] :
            i \in MatchingRows(entries, (CHOOSE r \in DescriptorsOf(dictRows, name) : TRUE).id, word)}

\* the content lookup_word works with for a row
ContentOf(name, row, word) == RowContent(file.cfg, storage, name, row, word)

\* the result is an entry of the dictionary: a row of its index, with the row's
\* content or, when the row has none, the content its container file gives
IsEntryOf(name, res, word) ==
    /\ res.found
    /\ res.source = name
    /\ \E row \in RowsFor(name, Strip(Lower(word))) :
          /\ row.word = res.word
          /\ ContentOf(name, row, word) = res.content

\* the enabled flag of a registered dictionary in the registry file
Enabled(name) == name \in DOMAIN file.cfg.dicts /\ file.cfg.dicts[name].is_active = TRUE
Disabled(name) == name \in DOMAIN file.cfg.dicts /\ file.cfg.dicts[name].is_active = FALSE

\* C3: a lookup never returns a result whose source is a dictionary that is
\* disabled in the registry file when the call starts, also through redirects.
C3_DisabledNeverConsulted ==
    [][ (lastOp'.op = "lookup" /\ lastOp'.result.found)
            => ~Disabled(lastOp'.result.source) ]_vars

\* a redirect was followed and a result returned while a disabled dictionary
\* that comes first in the priority list has an entry for the word
C3_Witness ==
    /\ IsLookup /\ lastOp.source = NoSource /\ lastOp.result.found /\ lastOp.depth >= 1
    /\ \E d \in DictNames :
          /\ Disabled(d)
          /\ file.cfg.priority # <<>> /\ file.cfg.priority[1] = d
          /\ RowsFor(d, Strip(Lower(lastOp.word))) # {}

\* the priority list without the built-in dictionary
PriorityDicts == SelectSeq(file.cfg.priority, LAMBDA n : n # ECDICT)

\* the case of C4: lookup(word, source=None) with priority [A, B], both
\* registered and enabled
TwoDictLookup(a, b) ==
    /\ IsLookup /\ lastOp.source = NoSource
    /\ a # b /\ PriorityDicts = <<a, b>>
    /\ Enabled(a) /\ Enabled(b)

Usable(name, row, word) ==
    ContentOf(name, row, word) # NoContent /\ ~LinkMatch(ContentOf(name, row, word))
Empty(name, row, word) == ContentOf(name, row, word) = NoContent

AllUsable(name, word) ==
    /\ RowsFor(name, Strip(Lower(word))) # {}
    /\ \A row \in RowsFor(name, Strip(Lower(word))) : Usable(name, row, word)
AllEmpty(name, word) ==
    \A row \in RowsFor(name, Strip(Lower(word))) : Empty(name, row, word)

C5_LookupWalksNewPriority ==
    (IsLookup /\ lastOp.source = NoSource /\ lastOp.prev = "set_priority")
        => /\ file.cfg.priority = lastOp.prevList
           /\ lastOp.walked # <<>>
           /\ \A i \in DOMAIN lastOp.walked : lastOp.walked[i] = lastOp.prevList

\* set_priority([En, Eng]) was followed by a lookup of a word both dictionaries
\* have, and the first of the new list answered
C5_Witness ==
    /\ IsLookup /\ lastOp.source = NoSource /\ lastOp.prev = "set_priority"
    /\ lastOp.prevList = <<En, Eng>> /\ lastOp.walked = <<lastOp.prevList>>
    /\ Enabled(En) /\ Enabled(Eng)
    /\ AllUsable(En, lastOp.word) /\ AllUsable(Eng, lastOp.word)
    /\ lastOp.result.found /\ lastOp.result.source = En

\* the first walk of the lookup met one of the two redirects a -> b, b -> a
EntersCycle == IsLookup /\ lastOp.word = WA /\ lastOp.depth >= 1

\* C6: lookup terminates: no call is made at a _depth above 4, the call at
\* _depth 4 returns none, and a lookup that enters a cycle of redirects ends
\* there with "not found", after the redirect was followed 3 times.
C6_RedirectCycleTerminates ==
    IsLookup =>
        /\ lastOp.depth <= 4
        /\ Len(lastOp.walked) <= 4
        /\ lastOp.depth = 4 => lastOp.result = NotFound
        /\ EntersCycle => (lastOp.result = NotFound /\ lastOp.depth = 4 /\ Len(lastOp.walked) = 4)

C6_Witness == EntersCycle /\ lastOp.depth = 4 /\ lastOp.result = NotFound

\* C7: lookup(word, source=D) with D not the built-in dictionary returns none
\* or an entry of D, also when D's entry for the word is a redirect.
C7_SourceOnly ==
    (IsLookup /\ lastOp.source \notin {NoSource, ECDICT} /\ lastOp.result.found)
        => /\ lastOp.result.source = lastOp.source
           /\ \A i \in DOMAIN lastOp.walked : lastOp.walked[i] = <<lastOp.source>>
           /\ \E i \in DOMAIN entries :
                 IsEntryOf(lastOp.source, lastOp.result, entries[i].word)

\* lookup("cats", source=D) where D holds cats -> @@@LINK= cat returned D's
\* entry for "cat", while the dictionary first in the priority list has an
\* entry of its own for "cats"
C7_Witness ==
    /\ IsLookup /\ lastOp.word = Cats /\ lastOp.source \in DictNames /\ lastOp.depth = 1
    /\ IsEntryOf(lastOp.source, lastOp.result, Cat)
    /\ \E d \in DictNames \ {lastOp.source} :
          /\ Enabled(d) /\ PriorityDicts # <<>> /\ PriorityDicts[1] = d
          /\ AllUsable(d, Cats)

\* C8: import under a name the registry already has raises and changes neither
\* imported_dir, the index nor the registry file.
C8_CollisionNoSideEffect ==
    [][ (lastOp'.op = "import" /\ IsRegistered(file.cfg, lastOp'.name))
            => /\ ~lastOp'.ok
               /\ storage' = storage
               /\ dictRows' = dictRows /\ entries' = entries /\ nextDictId' = nextDictId
               /\ file' = file ]_vars

C8_Witness ==
    /\ lastOp.op = "import" /\ ~lastOp.ok
    /\ IsRegistered(file.cfg, lastOp.name)
    /\ MdxName(lastOp.name) \in DOMAIN storage

\* C9: after a successful import the registry file has an enabled record for
\* the name, and the priority list is the name followed by the list as it was.
C9_ImportRegistersFirst ==
    [][ (lastOp'.op = "import" /\ lastOp'.ok)
            => /\ file'.state = "ok"
               /\ IsRegistered(file'.cfg, lastOp'.name)
               /\ IsActive(file'.cfg, lastOp'.name)
               /\ file'.cfg.priority = <<lastOp'.name>> \o file.cfg.priority ]_vars

\* a second import, on top of a list that already had a dictionary
C9_Witness ==
    /\ lastOp.op = "import" /\ lastOp.ok
    /\ Len(file.cfg.priority) >= 3
    /\ file.cfg.priority[1] = lastOp.name

\* the files import_dict makes for a name: {name}.<ext> and {name}_<file>
OwnFiles(name) ==
    {p \in DOMAIN storage : Stem(p) = name \/ StartsWith(p, name \o <<"_">>)}

NoFilesOf(name) == OwnFiles(name) = {}

NoRowsOf(name) ==
    /\ DescriptorsOf(dictRows, name) = {}
    /\ \A i \in DOMAIN entries : \E r \in dictRows : r.id = entries[i].dict_id

NotInRegistry(name) ==
    /\ file.state = "ok"
    /\ ~IsRegistered(file.cfg, name)
    /\ name \notin SeqToSet(file.cfg.priority)

\* remove(name) has returned, and the call before it was the import of name
RemovedAfterImport ==
    /\ lastOp.op = "remove" /\ lastOp.prev = "import" /\ lastOp.prevOk
    /\ lastOp.prevName = lastOp.name

IsRemove == lastOp'.op = "remove"
IsToggle == lastOp'.op = "toggle"

IdsOf(rows, name) == {r.id : r \in DescriptorsOf(rows, name)}

\* the registry file has no record of the name and no occurrence of it in the
\* priority list
RegistryCleaned(name) ==
    /\ file'.state = "ok"
    /\ name \notin DOMAIN file'.cfg.dicts
    /\ name \notin SeqToSet(file'.cfg.priority)

\* the index has no descriptor of the name and no entry row of one
IndexCleaned(name) ==
    /\ DescriptorsOf(dictRows', name) = {}
    /\ \A i \in DOMAIN entries' : entries'[i].dict_id \notin IdsOf(dictRows, name)

NothingChanged ==
    file' = file /\ storage' = storage /\ dictRows' = dictRows /\ entries' = entries

\* the call before was a remove of the same name
RemovedBefore == lastOp.op = "remove" /\ lastOp.name = lastOp'.name

C12_UnknownNameNotFound ==
    [][ ((IsRemove \/ IsToggle) /\ lastOp'.name \notin DOMAIN file.cfg.dicts)
            => (~lastOp'.ok /\ NothingChanged) ]_vars

\* the files remove_dict sets out to delete, and how many unlinks raised
Attempted(name) == FilesToDelete(LoadConfig(file), storage, name)
UnlinkFailures == lastOp'.failures - (IF lastOp'.dbFailed THEN 1 ELSE 0)

\* of the files the call set out to delete, those whose unlink raised are left
\* and no other
OthersDeleted(name) ==
    Cardinality(Attempted(name) \cap DOMAIN storage') = UnlinkFailures

C14_ToggleFrame ==
    [][ (IsToggle /\ lastOp'.name \in DOMAIN file.cfg.dicts) =>
          /\ lastOp'.ok
          /\ file'.state = "ok"
          /\ file'.cfg.dicts[lastOp'.name].is_active = lastOp'.active
          /\ DOMAIN file'.cfg.dicts = DOMAIN file.cfg.dicts
          /\ \A n \in DOMAIN file.cfg.dicts \ {lastOp'.name} :
                file'.cfg.dicts[n] = file.cfg.dicts[n]
          /\ \A k \in {"name", "filename", "word_count"} :
                file'.cfg.dicts[lastOp'.name][k] = file.cfg.dicts[lastOp'.name][k]
          /\ file'.cfg.priority = file.cfg.priority
          /\ file'.cfg.auto_index = file.cfg.auto_index
          /\ storage' = storage /\ dictRows' = dictRows /\ entries' = entries ]_vars

\* one of two registered dictionaries was disabled, the other is still enabled
C14_Witness ==
    /\ lastOp.op = "toggle" /\ lastOp.active = FALSE
    /\ Disabled(lastOp.name)
    /\ \E n \in DictNames \ {lastOp.name} : Enabled(n)
    /\ Len(file.cfg.priority) = 3

(***************************************************************************)
(* Properties of import_dict and get_resource.                             *)
(***************************************************************************)
\* the dictionary is the bundle as import_dict stored it: its primary container
\* and its same-stem resource archive
IsBundle(name) ==
    /\ name \in DOMAIN file.cfg.dicts
    /\ MdxName(name) \in DOMAIN storage /\ storage[MdxName(name)] = Bundle.mdx
    /\ MddName(name) \in DOMAIN storage /\ storage[MddName(name)] = MddRes

\* the index holds a row of the dictionary for every key of the archive
KeysIndexed(name, archive) ==
    /\ DescriptorsOf(dictRows, name) # {}
    /\ \A k \in DOMAIN archive :
          MatchingRows(entries, (CHOOSE r \in DescriptorsOf(dictRows, name) : TRUE).id,
                       Lower(archive[k].word)) # {}

\* C15: after the import of a bundle with a primary container and a same-stem
\* resource archive the index holds the keys of the archive, and
\* resource(name, path) returns the bytes of a path the archive contains.
C15_BundleResourceIndexed ==
    /\ (lastOp.op = "import" /\ lastOp.ok /\ IsBundle(lastOp.name))
          => KeysIndexed(lastOp.name, MddRes)
    /\ (lastOp.op = "resource" /\ lastOp.prev = "import" /\ lastOp.prevOk
          /\ lastOp.prevName = lastOp.name /\ IsBundle(lastOp.name)
          /\ GetResourceBytes(MddRes, lastOp.word) # NoContent)
          => (lastOp.result.found
              /\ lastOp.result.content = GetResourceBytes(MddRes, lastOp.word))

\* C16: after an import the word_count that list_dictionaries reports for the
\* dictionary and the word_count of its descriptor row are the number of
\* entries of its primary container, also when a resource archive was indexed.
C16_WordCountOfPrimary ==
    (lastOp.op = "import" /\ lastOp.ok) =>
        LET n == Len(storage[MdxName(lastOp.name)])
            listed == GetDicts(file, storage)
        IN /\ \E i \in DOMAIN listed :
                 listed[i].name = lastOp.name /\ listed[i].word_count = n
           /\ DescriptorsOf(dictRows, lastOp.name) # {}
           /\ \A r \in DescriptorsOf(dictRows, lastOp.name) : r.word_count = n

\* the dictionaries the last lookup was to consult: the source when one is
\* named, otherwise those of the priority list; of these the registered,
\* enabled ones
Named == lastOp.source \notin {NoSource, ECDICT}
Consulted ==
    {name \in (IF Named THEN {lastOp.source} ELSE SeqToSet(file.cfg.priority)) :
        Enabled(name)}

\* the index of the dictionary has a row for the word, lowercased and stripped
Contains(name, word) ==
    \E i \in DOMAIN entries :
        /\ entries[i].dict_id \in IdsOf(dictRows, name)
        /\ entries[i].word_lower = Strip(Lower(word))

\* C20: a lookup with a source that is not in the registry, or for a word none
\* of the consulted dictionaries contains, returns none and does not raise.
C20_UnknownIsNotFound ==
    IsLookup =>
       /\ lastOp.ok
       /\ Named /\ lastOp.source \notin DOMAIN file.cfg.dicts => lastOp.result = NotFound
       /\ (\A name \in Consulted : ~Contains(name, lastOp.word)) => lastOp.result = NotFound

\* a word is looked up with the source "Eng", which is not registered, while
\* the registered, enabled dictionary "en" has a result for it: none is returned
C20_Witness ==
    /\ IsLookup
    /\ lastOp.source = Eng
    /\ Eng \notin DOMAIN file.cfg.dicts
    /\ Enabled(En)
    /\ Contains(En, lastOp.word)
    /\ \E o \in LookupWord(file, dictRows, entries, storage, lastOp.word, NoSource, 0) :
          o.result.found
    /\ lastOp.result = NotFound
    /\ lastOp.ok

\* what list_dictionaries returns in the current state, and the names it lists
\* after the first entry
Listed == GetDicts(file, storage)
ListedNames == [i \in 1..(Len(Listed) - 1) |-> Listed[i + 1].name]

\* s lists each of its elements once, in the order they have in t
InOrderOf(s, t) ==
    /\ \A i, j \in DOMAIN s : i # j => s[i] # s[j]
    /\ \E f \in [DOMAIN s -> DOMAIN t] :
          /\ \A i \in DOMAIN s : t[f[i]] = s[i]
          /\ \A i, j \in DOMAIN s : i < j => f[i] < f[j]

\* C22: after any sequence of import, remove, toggle and set_priority,
\* list_dictionaries returns the built-in ECDICT entry first and only once,
\* then every registered dictionary once, in the order of the priority list.
C22_ListsBuiltinThenRegistered ==
    /\ Listed[1].name = ECDICT /\ Listed[1].type = "builtin" /\ Listed[1].is_builtin
    /\ \A i \in DOMAIN ListedNames : ListedNames[i] # ECDICT
    /\ SeqToSet(ListedNames) = DOMAIN file.cfg.dicts
    /\ InOrderOf(ListedNames, file.cfg.priority)

\* the files of managed storage that belong to dictionary m: its container, the
\* resource archive next to it, and the companions named m_<file>
FilesOwnedBy(cfg, store, m) ==
    {p \in DOMAIN store :
        \/ p = cfg.dicts[m].filename
        \/ p = m \o <<".mdd">>
        \/ Len(p) > Len(m) /\ SubSeq(p, 1, Len(m) + 1) = m \o <<"_">>}

\* the index rows of dictionary m
RowsOwnedBy(rows, ents, m) ==
    {e \in SeqToSet(ents) : \E d \in rows : d.name = m /\ d.id = e.dict_id}

\* C24: remove(name) deletes no file of another registered dictionary m, also
\* when m's name starts with name: m's files are still in managed storage after
\* the call, and m's registry record and index rows are unchanged.
C24_RemoveSparesOthers ==
    [][ (lastOp'.op = "remove" /\ calls' = calls + 1) =>
           \A m \in DOMAIN LoadConfig(file).dicts \ {lastOp'.name} :
              /\ FilesOwnedBy(LoadConfig(file), storage, m) \subseteq DOMAIN storage'
              /\ m \in DOMAIN LoadConfig(file').dicts
              /\ LoadConfig(file').dicts[m] = LoadConfig(file).dicts[m]
              /\ RowsOwnedBy(dictRows', entries', m) = RowsOwnedBy(dictRows, entries, m) ]_vars

\* C28: the index never holds two entry rows with the same (dict_id, word); a
\* row written for a key that exists replaces the existing row.
C28_OneRowPerKey ==
    \A i, j \in DOMAIN entries :
        (entries[i].dict_id = entries[j].dict_id /\ entries[i].word = entries[j].word) => i = j

(***************************************************************************)
(* Properties of lookups in dictionaries whose entries redirect.           *)
(***************************************************************************)
\* the rows the named, enabled source of the last lookup has for its word
SourceRows ==
    IF lastOp.source \in DictNames /\ Enabled(lastOp.source)
    THEN RowsFor(lastOp.source, Strip(Lower(lastOp.word))) ELSE {}

\* content that carries the redirect marker with an empty or blank target
Malformed(content) == content.kind = "link" /\ Strip(content.raw) = <<>>

\* C21: a lookup of a word whose entry carries the redirect marker with a
\* malformed target (empty, or blanks only) returns the entry with that
\* content as a normal result.
C21_MalformedRedirectIsNormal ==
    IsLookup /\ SourceRows # {} /\ (\A row \in SourceRows : Malformed(row.content)) =>
        \E row \in SourceRows : lastOp.result = Found(row.word, lastOp.source, row.content)

\* positions of the priority list whose dictionary is registered and enabled
\* and has an entry with content for the word of the last lookup
Holders ==
    {i \in DOMAIN file.cfg.priority :
        LET name == file.cfg.priority[i]
        IN /\ name # ECDICT
           /\ Enabled(name)
           /\ \E row \in RowsFor(name, Strip(Lower(lastOp.word))) :
                  ContentOf(name, row, lastOp.word) # NoContent}
FirstHolder == file.cfg.priority[CHOOSE i \in Holders : \A j \in Holders : i <= j]

\* the entry is a redirect with a target
Redirects(content) == content.kind = "link" /\ content.raw # <<>>

\* C27: when the first dictionary of the priority list that has the word holds
\* a redirect, the result of lookup(word, source=None) is the result of
\* lookup(target, source=None, depth + 1), made over the whole priority list:
\* it may come from another dictionary, and it is none when the target resolves
\* to nothing, whatever the other dictionaries hold for the word itself.
C27_RedirectRestartsSearch ==
    IsLookup /\ lastOp.source = NoSource /\ Holders # {} =>
        \A row \in RowsFor(FirstHolder, Strip(Lower(lastOp.word))) :
            LET content == ContentOf(FirstHolder, row, lastOp.word)
            IN Redirects(content) =>
                 \E o \in LookupWord(file, dictRows, entries, storage,
                                     Strip(content.raw), NoSource, 1) :
                     /\ lastOp.result = o.result
                     /\ lastOp.depth = o.depth

\* "x" is looked up without a source; the first dictionary redirects it to "y",
\* which only the second one defines, and the second one's entry is returned
C27_Witness ==
    /\ IsLookup
    /\ lastOp.source = NoSource
    /\ lastOp.word = <<"x">>
    /\ Holders # {}
    /\ \E row \in RowsFor(FirstHolder, <<"x">>) : row.content = Link(<<"y">>)
    /\ lastOp.result.found
    /\ lastOp.result.source # FirstHolder
    /\ lastOp.result.content = Html(2)

\* C30: the call of lookup entered at depth d returns none without reading the
\* index exactly when d > 3: a result comes from a call at depth 3 or less, each
\* of which walked its dictionaries; a word three redirects away from a
\* definition gets the definition, a word four redirects away gets none.
C30_DepthBound ==
    IsLookup =>
       /\ lastOp.depth <= 4
       /\ lastOp.depth <= 3 => Len(lastOp.walked) = lastOp.depth + 1
       /\ lastOp.depth = 4 => lastOp.result = NotFound /\ Len(lastOp.walked) = 4
       /\ SourceRows # {} /\ (\E row \in SourceRows : row.content = Link(<<"q">>)) =>
              lastOp.depth = 3 /\ lastOp.result = Found(<<"s">>, lastOp.source, Html(1))
       /\ SourceRows # {} /\ (\E row \in SourceRows : row.content = Link(<<"p">>)) =>
              lastOp.depth = 4 /\ lastOp.result = NotFound

\* "p" is looked up in the dictionary of redirects: the definition of "s", three
\* redirects away, is returned by the call at depth 3
C30_Witness ==
    /\ IsLookup
    /\ lastOp.word = <<"p">>
    /\ lastOp.source \in DictNames
    /\ lastOp.depth = 3
    /\ lastOp.result = Found(<<"s">>, lastOp.source, Html(1))

\* the results lookup_word(word, source) can give in the current state
ResultsOf(word, source) ==
    {o.result : o \in LookupWord(file, dictRows, entries, storage, word, source, 0)}

\* queries that are equal after trimming and lowercasing, in two groups
SameQueries ==
    { <<Ox, <<" ", "o", "x">> >>, <<Ox, <<"O", "X">> >>, <<Cat, <<" ", "C", "A", "T">> >>,
      <<Cat, CapCat>>, <<Cats, <<"C", "a", "t", "s", " ">> >> }

\* C23: every index row has word_lower = lowercase(word); two queries that are
\* equal after trimming and lowercasing give the same result; and the word of a
\* result is the word of an index row of the dictionary that answered.
C23_MatchesOnLowercasedWord ==
    /\ \A i \in DOMAIN entries : entries[i].word_lower = Lower(entries[i].word)
    /\ \A p \in SameQueries, source \in {NoSource, En, Eng} :
          ResultsOf(p[1], source) = ResultsOf(p[2], source)
    /\ \A p \in SameQueries, source \in {NoSource, En, Eng}, k \in 1..2 :
          \A r \in ResultsOf(p[k], source) :
             r.found => \E i \in DOMAIN entries :
                           /\ entries[i].word = r.word
                           /\ \E d \in dictRows : d.id = entries[i].dict_id /\ d.name = r.source

(***************************************************************************)
(* Properties of the calls of dict_service.                                *)
(***************************************************************************)
IsCandidates == lastOp.op = "candidates"
IsService == lastOp.op = "service"

\* the word of the last call (for a lookup: once cleaned) is written, in
\* lowercase, on the exception list
OnExceptionList ==
    (IF IsService THEN Lower(CleanWord(lastOp.word)) ELSE Lower(lastOp.word))
        \in ExceptionWords

\* C18: candidates(word) is the empty list whenever the lowercased word is on
\* the exception list, with or without validation and whatever the index holds,
\* and a lookup of such a word looks no reduced form up.
C18_ExceptionWordsNotReduced ==
    /\ IsCandidates /\ OnExceptionList => lastOp.candidates = <<>>
    /\ IsService /\ OnExceptionList =>
          /\ lastOp.candidates = <<>>
          /\ lastOp.tried = <<>>
          /\ lastOp.stage # "lemma"

\* "Bed" is looked up in the enabled dictionary, which has no entry for it
\* but one for "be", the form the -ed rule would reduce it to; nothing was tried
C18_Witness ==
    /\ IsService
    /\ lastOp.word = CapBed
    /\ lastOp.source = En
    /\ Enabled(En)
    /\ RowsFor(En, Be) # {}
    /\ lastOp.stage = "later"
    /\ lastOp.tried = <<>>

\* the word dict_service looks up, and the candidates generated for it
Asked == CleanWord(lastOp.word)
Generated == GetLemmaCandidates(Asked, FALSE, file, dictRows, entries)

\* DictManager.lookup_word has a result for the word with the source of the call
Yields(word) ==
    \E o \in LookupWord(file, dictRows, entries, storage, word, lastOp.source, 0) :
        o.result.found

\* the result of the call is what DictManager.lookup_word gives for the
\* candidate, under the word asked for
IsResultFor(lemma) ==
    \E o \in LookupWord(file, dictRows, entries, storage, lemma, lastOp.source, 0) :
        /\ o.result.found
        /\ lastOp.result = [o.result EXCEPT !.word = Asked]

\* the candidates of the dictionary "en" that have an entry there
WithEntry == {i \in DOMAIN Generated : RowsFor(En, Lower(Generated[i])) # {}}

\* C17 as stated: whenever the dictionary the lookup consults has no entry for
\* the word but one for a generated candidate, the lookup returns the entry of
\* the first such candidate.
C17_AsStated ==
    /\ IsService
    /\ lastOp.source \in {SourceNone, NoSource, En}
    /\ Enabled(En)
    /\ RowsFor(En, Lower(Asked)) = {}
    /\ WithEntry # {}
    => LET first == CHOOSE i \in WithEntry : \A j \in WithEntry : i <= j
       IN /\ lastOp.stage = "lemma"
          /\ lastOp.result.found
          /\ lastOp.result.source = En
          /\ \E row \in RowsFor(En, Lower(Generated[first])) :
                 lastOp.result.content = row.content

\* a candidate the fallback looks up: two characters or more (letters only when
\* it has just two), and in the index of an enabled dictionary
Surfaced(i) ==
    /\ Len(Generated[i]) >= 2
    /\ Len(Generated[i]) = 2 => IsAlpha(Generated[i])
    /\ \E name \in DOMAIN file.cfg.dicts :
          Enabled(name) /\ RowsFor(name, Lower(Generated[i])) # {}
Answering == {i \in DOMAIN Generated : Surfaced(i) /\ Yields(Generated[i])}

\* C17, amended: a lookup made with a source argument (a dictionary name or "")
\* that finds nothing for the word itself returns, under the word asked for,
\* the result of the first generated candidate of two characters or more
\* (letters only when it has just two) that an enabled dictionary's index holds
\* and that yields a result with the same source, and has no result from the
\* dictionaries when there is none; a lookup made without a source argument
\* tries no candidate.
C17_LemmaFallbackWithSource ==
    IsService /\ Asked # <<>> =>
       /\ lastOp.source = SourceNone =>
             lastOp.stage \in {"aggregate", "later"} /\ lastOp.tried = <<>>
       /\ lastOp.source # SourceNone /\ Yields(Asked) =>
             lastOp.stage = "exact" /\ lastOp.tried = <<>>
       /\ lastOp.source # SourceNone /\ ~Yields(Asked) /\ Answering = {} =>
             lastOp.stage = "later" /\ ~lastOp.result.found
       /\ lastOp.source # SourceNone /\ ~Yields(Asked) /\ Answering # {} =>
             LET first == CHOOSE i \in Answering : \A j \in Answering : i <= j
             IN /\ lastOp.stage = "lemma"
                /\ lastOp.lemma = Generated[first]
                /\ IsResultFor(Generated[first])

\* "studying" is looked up in the dictionary "en", which has an entry for
\* "study" and none for "studying", and the entry of "study" is returned
C17_Witness ==
    /\ IsService
    /\ lastOp.word = Studying
    /\ lastOp.source = En
    /\ RowsFor(En, Studying) = {}
    /\ lastOp.stage = "lemma"
    /\ lastOp.lemma = Study
    /\ lastOp.result = Found(Studying, En, Html(1))

\* position of the first occurrence of x in list, 0 when it has none
FirstAt(list, x) ==
    IF \E i \in DOMAIN list : list[i] = x
    THEN CHOOSE i \in DOMAIN list : list[i] = x /\ \A j \in 1..(i - 1) : list[j] # x
    ELSE 0

\* a is in the list and no b comes before it
Precedes(list, a, b) ==
    /\ FirstAt(list, a) > 0
    /\ FirstAt(list, b) > 0 => FirstAt(list, a) < FirstAt(list, b)

\* the word of the last call ends, in lowercase, with the suffix
WordEndsWith(suffix) == EndsWith(Lower(lastOp.word), suffix)
\* the word without its last n characters, and with "y" in their place
Cut(n) == DropLast(lastOp.word, n)
CutY(n) == DropLast(lastOp.word, n) \o <<"y">>

\* C19: in the list candidates(word) returns, the candidate of the longer
\* suffix rule comes before the candidates of a shorter rule that applies to
\* the same word: -ies before -es before -s, -ied before -ed, -ier before -er,
\* -iest before -est.
C19_MostSpecificFirst ==
    IsCandidates /\ lastOp.candidates # <<>> /\ ~lastOp.active =>
        LET list == lastOp.candidates
        IN /\ WordEndsWith(<<"i", "e", "s">>) =>
                 /\ Precedes(list, CutY(3), Cut(2))
                 /\ Precedes(list, CutY(3), Cut(1))
                 /\ Precedes(list, Cut(2), Cut(1))
           /\ WordEndsWith(<<"i", "e", "d">>) =>
                 /\ Precedes(list, CutY(3), Cut(2))
                 /\ Precedes(list, CutY(3), Cut(1))
           /\ WordEndsWith(<<"i", "e", "r">>) =>
                 Precedes(list, CutY(3), Cut(2))
           /\ WordEndsWith(<<"i", "e", "s", "t">>) =>
                 /\ Precedes(list, CutY(4), Cut(3))
                 /\ Precedes(list, CutY(4), Cut(2))

(***************************************************************************)
(* Properties of imports whose index writes fail.                          *)
(***************************************************************************)
\* the index rows of the descriptor with this name
IndexedUnder(name) ==
    {i \in DOMAIN entries : \E d \in dictRows : d.name = name /\ d.id = entries[i].dict_id}

\* the executemany calls of the last import that were committed
CommittedWrites == {k \in DOMAIN lastOp.writes : lastOp.writes[k]}

\* the last call was an import that raised out of the index build
ImportFailed == lastOp.op = "import" /\ ~lastOp.ok

\* C33: index writes are committed a batch of 1000 rows at a time: when a later
\* batch fails and the import raises, the rows of every batch committed before
\* it are in the index, the first entry of the container among them, and the
\* registry has no record and no priority entry for the dictionary.
C33_EarlierBatchesPersist ==
    ImportFailed =>
        /\ Cardinality(IndexedUnder(lastOp.name)) >= BatchSize * Cardinality(CommittedWrites)
        /\ CommittedWrites # {} =>
              \E i \in IndexedUnder(lastOp.name) : entries[i].word = <<"1">>
        /\ lastOp.name \notin DOMAIN LoadConfig(file).dicts
        /\ lastOp.name \notin SeqToSet(LoadConfig(file).priority)

\* two batches were committed and the write of the rest raised
C33_Witness ==
    /\ ImportFailed
    /\ lastOp.writes = <<TRUE, TRUE, FALSE>>
    /\ Cardinality(IndexedUnder(lastOp.name)) = 2 * BatchSize

\* C34: the index build skips every entry whose key is empty or cannot be
\* decoded: after an import the index has no row with an empty word for the
\* dictionary, and the registered word_count is the number of its rows.
C34_EmptyKeysSkipped ==
    (lastOp.op = "import" /\ lastOp.ok) =>
        /\ \A i \in IndexedUnder(lastOp.name) : entries[i].word # <<>>
        /\ LoadConfig(file).dicts[lastOp.name].word_count
              = Cardinality({i \in IndexedUnder(lastOp.name) : entries[i].word # <<>>})

\* C35: a bundle import relocates every file next to the primary whose stem is
\* not the primary's to {name}_<file name>: such a file does not take the name
\* {name}.<ext>, and the files of the primary's stem keep theirs.
C35_OtherStemsPrefixed ==
    \A name \in DictNames :
        (MdxName(name) \in DOMAIN storage /\ storage[MdxName(name)] = Assets.mdx) =>
            \A m \in Assets.members :
                LET plain == name \o <<Suffix(m.fname)>>
                    prefixed == name \o <<"_">> \o m.fname
                IN IF Stem(m.fname) = Stem(Assets.primary)
                   THEN plain \in DOMAIN storage /\ storage[plain] = m.data
                   ELSE /\ prefixed \in DOMAIN storage /\ storage[prefixed] = m.data
                        /\ plain \in DOMAIN storage => storage[plain] # m.data

\* C36: a resource request is answered without regard to letter case or to the
\* leading separator: when the archive of a registered dictionary holds a key that
\* is, up to case, the path as given or the path with its leading separators
\* written as one backslash or one slash, the request returns the bytes of such a
\* key, and it returns none only when the archive holds no such key.
C36_ResourceAnyCase ==
    (/\ lastOp.op = "resource"
     /\ lastOp.name \in DOMAIN config.dicts
     /\ MddName(lastOp.name) \in DOMAIN storage) =>
        LET archive == storage[MddName(lastOp.name)]
            bare == LStripChars(lastOp.word, {"/", "\\"})
            variants == {lastOp.word, <<"\\">> \o bare, <<"/">> \o bare}
            keys == {i \in DOMAIN archive : \E v \in variants : Lower(archive[i].word) = Lower(v)}
        IN IF keys = {} THEN ~lastOp.result.found
           ELSE /\ lastOp.result.found
                /\ \E i \in keys : lastOp.result.content = archive[i].content

(***************************************************************************)
(* Properties of loading the registry.                                     *)
(***************************************************************************)
\* C39: a load of a registry file that is missing or does not parse returns the
\* default configuration and leaves it in the file; a load of a file that holds
\* a registry returns what the last save wrote (the configuration set_priority or
\* toggle_dict saved, or the one an earlier load returned) and leaves the file
\* as it is.
C39_LoadDefaultsOrReturnsSaved ==
    [][ (lastOp'.op = "load" /\ lastOp' # lastOp) =>
            IF file.state = "ok"
            THEN /\ file' = file
                 /\ config' = file.cfg
                 /\ lastOp.op \in {"set_priority", "toggle", "load"} => config' = config
            ELSE /\ config' = [dicts |-> <<>>, priority |-> <<ECDICT>>, auto_index |-> TRUE]
                 /\ file' = [state |-> "ok", cfg |-> config'] ]_vars

\* a load has found a file that does not parse and left the default in it
C39_Witness ==
    /\ lastOp.op = "load" /\ lastOp.stage \in {"missing", "empty", "garbage"}
    /\ file.state = "ok" /\ file.cfg = config /\ config.priority = <<ECDICT>>

\* C40: check_sources(word) has one key for every name of the priority list but
\* the built-in one and no other key, and a name maps to true exactly when the
\* dictionary is registered and enabled and the index has a row of it for the
\* lowercased, stripped word.
C40_SourcesOfPriorityList ==
    \A word \in { Cats, Ox, <<" ", "C", "A", "T">>, WA } :
        LET cfg == LoadConfig(file)
            sources == CheckSources(file, dictRows, entries, word)
        IN /\ DOMAIN sources = SeqToSet(cfg.priority) \ {ECDICT}
           /\ \A name \in DOMAIN sources :
                sources[name] <=>
                    /\ name \in DOMAIN cfg.dicts
                    /\ cfg.dicts[name].is_active
                    /\ \E i \in IndexedUnder(name) : entries[i].word_lower = Lower(Strip(word))

(***************************************************************************)
(* Properties of the calls made while another instance writes the registry.*)
(***************************************************************************)
\* C29: every public operation begins by reloading the registry file, so it
\* observes the writes completed before it started, those of another instance
\* included: a resource request and a lookup answer from the registry as the
\* file holds it, an import is refused for a name the file registers, and a
\* call that writes the file keeps the records of the other names.
C29_EveryCallReloads ==
    [][ lastOp' # lastOp =>
          /\ lastOp'.op = "resource" =>
                LET bytes == GetResource(LoadConfig(file), dictRows, entries, storage,
                                         lastOp'.name, lastOp'.word)
                IN lastOp'.result = IF bytes = NoContent THEN NotFound
                                    ELSE Found(lastOp'.word, lastOp'.name, bytes)
          /\ lastOp'.op = "lookup" =>
                \E o \in LookupWord(file, dictRows, entries, storage,
                                    lastOp'.word, lastOp'.source, 0) :
                    lastOp'.result = o.result
          /\ (lastOp'.op = "import" /\ lastOp'.name \in DOMAIN LoadConfig(file).dicts) =>
                ~lastOp'.ok
          /\ lastOp'.op \in {"import", "remove", "toggle"} =>
                \A m \in DOMAIN LoadConfig(file).dicts \ {lastOp'.name} :
                    m \in DOMAIN LoadConfig(file').dicts ]_vars

\* C37: the lookup in one dictionary returns a result of that dictionary or
\* none, and leaves the priority list as it was before the call, in the
\* configuration in memory and in the registry file.
C37_LookupInOneDictionary ==
    [][ (lastOp'.op = "dict_lookup" /\ lastOp' # lastOp) =>
            /\ lastOp'.result.found => lastOp'.result.source = lastOp'.name
            /\ config'.priority = config.priority
            /\ LoadConfig(file').priority = LoadConfig(file).priority ]_vars

\* C38: without set_priority the priority list of the registry names no
\* dictionary twice and names every registered dictionary, and a lookup
\* without a source finds a word that a registered and enabled dictionary
\* defines, whatever the name of that dictionary.
C38_EveryDictionaryReachable ==
    LET cfg == LoadConfig(file)
    IN /\ \A i, j \in DOMAIN cfg.priority : cfg.priority[i] = cfg.priority[j] => i = j
       /\ \A name \in DOMAIN cfg.dicts : \E i \in DOMAIN cfg.priority : cfg.priority[i] = name
       /\ (/\ lastOp.op = "lookup" /\ lastOp.source = NoSource
           /\ \E name \in DOMAIN cfg.dicts :
                /\ cfg.dicts[name].is_active
                /\ \E i \in IndexedUnder(name) :
                     /\ entries[i].word_lower = Lower(Strip(lastOp.word))
                     /\ entries[i].content.kind = "html")
          => lastOp.result.found

(***************************************************************************)
(* Properties of the calls made from several threads.                      *)
(***************************************************************************)
Mutators == {"import", "remove", "set_priority", "toggle"}

\* the thread has run a statement of import, remove, set_priority or toggle and
\* the call has not returned
InProgress(t) ==
    /\ threads[t].op \in Mutators
    /\ threads[t].pc \notin {"idle", "done", "acquire"}
    /\ (threads[t].pc = "load" => lock = t)

\* C1: no two of import, remove, set_priority and toggle are in progress on the
\* instance at the same time.
C1_MutuallyExclusive ==
    \A t \in Threads, u \in Threads : t # u => ~(InProgress(t) /\ InProgress(u))

\* C2: a step of a lookup changes neither the registry file nor the index, in
\* every interleaving with the other calls.
C2_LookupReadOnly ==
    [][ \A t \in Threads :
            (threads[t].op = "lookup" /\ threads'[t].pc # threads[t].pc)
                => (file' = file /\ dictRows' = dictRows /\ entries' = entries) ]_vars

\* the call of thread t is the first call of the run beside lookups: every
\* thread is in its first call, and the other threads have made no call or are
\* in a lookup
OthersOnlyRead(t) ==
    /\ opsStarted = Cardinality({u \in Threads : threads[u].op # "idle"})
    /\ \A u \in Threads \ {t} : threads[u].op \in {"idle", "lookup"}

\* C25: when remove(name) has returned and the other threads ran only lookups,
\* the registry file has no record of name and name is not in its priority list.
C25_RemovePersistsAmongReaders ==
    \A t \in Threads :
        (threads[t].op = "remove" /\ threads[t].pc = "done" /\ OthersOnlyRead(t))
            => /\ threads[t].name \notin DOMAIN LoadConfig(file).dicts
               /\ threads[t].name \notin SeqToSet(LoadConfig(file).priority)

\* C26: when import(file, name) has returned successfully and the other threads
\* ran only lookups, the registry file has the record of name and name in its
\* priority list; and no registry file is written in which a name an import
\* adds is in the priority list without a record or has a record without being
\* in the priority list.
C26_ImportPersistsAmongReaders ==
    \A t \in Threads :
        (threads[t].op = "import" /\ OthersOnlyRead(t) /\ file.state = "ok") =>
            /\ (threads[t].pc = "done" /\ threads[t].ok) =>
                   /\ threads[t].name \in DOMAIN file.cfg.dicts
                   /\ threads[t].name \in SeqToSet(file.cfg.priority)
            /\ threads[t].name \in DOMAIN file.cfg.dicts
                   <=> threads[t].name \in SeqToSet(file.cfg.priority)

\* how often x occurs in the sequence s
Occurrences(s, x) == Cardinality({i \in DOMAIN s : s[i] = x})

\* C31: of two concurrent imports under the same name, started when the
\* registry has no such name, at most one succeeds and the other fails with the
\* naming collision; afterwards the priority list has the name once and the
\* index holds one set of rows for it.
C31_OneOfTwoImportsSucceeds ==
    \A t, u \in Threads :
        ( /\ t # u
          /\ opsStarted = 2
          /\ threads[t].op = "import" /\ threads[u].op = "import"
          /\ threads[t].name = threads[u].name
          \* the run starts with "en" registered and no other name
          /\ threads[t].name # En
          /\ threads[t].pc = "done" /\ threads[u].pc = "done" )
        => /\ ~(threads[t].ok /\ threads[u].ok)
           /\ file.state = "ok" => Occurrences(file.cfg.priority, threads[t].name) <= 1
           /\ Occurrences(config.priority, threads[t].name) <= 1
           /\ \A i, j \in DOMAIN entries :
                 ( /\ entries[i].dict_id = entries[j].dict_id
                   /\ entries[i].word = entries[j].word
                   /\ \E d \in dictRows : d.name = threads[t].name /\ d.id = entries[i].dict_id )
                 => i = j

\* C32: remove(name) writes the registry file once, as its last step, after the
\* file deletion and the index clean-up were attempted: a step of a remove call
\* changes the registry file only in its final save.
C32_RemoveSavesOnceAtEnd ==
    [][ \A t \in Threads :
            ( /\ threads[t].op = "remove"
              /\ threads'[t].pc # threads[t].pc
              /\ file' # file )
            => threads[t].pc \in {"open", "write"} ]_vars

=============================================================================
